---- MODULE Spec2Model ----
(***************************************************************************)
(* Order lifecycle and inventory reservation of the food-truck backend.    *)
(*                                                                         *)
(* The record store is the tables shifts, orders (with their order lines), *)
(* truck_menu_items, inventory_adjustments and loyalty_ledger.  Every request handler of   *)
(* app/routers is one action over these tables; `response` is the HTTP     *)
(* response of the request that ran last and `emitted` the hub events that *)
(* request submitted through fire_and_forget; `notifications` the calls it *)
(* made to the notification service.                                       *)
(*                                                                         *)
(* The broadcast hub is `clients`, the dict from shift id to the set of    *)
(* registered display connections.  `connections` is each display's        *)
(* websocket and the position of its ws_shift coroutine, `received` what   *)
(* each display has been sent, and `threads` the worker threads of the     *)
(* thread pool, each with the request it is serving.                       *)
(*                                                                         *)
(* Optional[int] columns are <<>> (None) or <<n>>; Optional[str] columns   *)
(* are the string "None" or the value.  Timestamps that are only stamped   *)
(* (prep_completed_at, canceled_at, refunded_at, auto_reconciled_at) are   *)
(* booleans "has been stamped"; on_hold_until is the number of minutes     *)
(* added to now.  last_state_change_at, last_stock_update_at and the       *)
(* AuditLog rows are written by the handlers and read by none of them;     *)
(* they are left out.                                                      *)
(***************************************************************************)
EXTENDS Integers, Sequences, FiniteSets, TLC

\* ------------------------------------------------------------------ bounds
MaxQty == 2
MaxStock == 3
MaxMinutes == 1
MaxAdjustments == 3
MaxLoyalty == 3
MaxShifts == 4

\* --------------------------------------------------------------- constants
None == "None"
Null == <<>>

S_NEW == "NEW"
S_PAID == "PAID"
S_IN_QUEUE == "IN_QUEUE"
S_IN_PROGRESS == "IN_PROGRESS"
S_READY == "READY"
S_ON_HOLD == "ON_HOLD"
S_PICKED_UP == "PICKED_UP"
S_CANCELED == "CANCELED"
S_REFUNDED == "REFUNDED"

OrderState == {S_NEW, S_PAID, S_IN_QUEUE, S_IN_PROGRESS, S_READY, S_ON_HOLD, S_PICKED_UP, S_CANCELED, S_REFUNDED}

CHECKED_IN == "CHECKED_IN"
PAUSED == "PAUSED"
CHECKED_OUT == "CHECKED_OUT"

\* Identities of the rows the model works with; the shifts are those open at
\* the start.
ShiftIds == {1, 2}
OrderIds == {1, 2}

\* What a client may send as AdvancePayload.to: any string.
AdvanceTargets == OrderState \cup {"BOGUS"}

\* The kitchen displays that may connect and the worker threads that serve
\* requests.
Connections == {1, 2, 3}
Threads == {1, 2}

VARIABLES shifts, orders, order_items, truck_menu_items, inventory_adjustments,
          loyalty_ledger, sessions, response, emitted, notifications,
          clients, connections, received, threads

vars == <<shifts, orders, order_items, truck_menu_items, inventory_adjustments,
          loyalty_ledger, sessions, response, emitted, notifications,
          clients, connections, received, threads>>

store_vars == <<shifts, orders, order_items, truck_menu_items, inventory_adjustments,
                loyalty_ledger, sessions, response, emitted, notifications>>

\* Python's `x or d` on an Optional[int] column.
OrZero(x) == IF x = Null THEN 0 ELSE x[1]

Max(a, b) == IF a >= b THEN a ELSE b

RECURSIVE SumDeltas(_)
SumDeltas(s) == IF s = <<>> THEN 0 ELSE Head(s).delta + SumDeltas(Tail(s))

AdjustmentsOf(adjs, tmi_id) == SelectSeq(adjs, LAMBDA a : a.truck_menu_item_id = tmi_id)

\* ------------------------------------------------------------------ tables

\* A TruckShift row as checkin builds it.
TruckShift(truck_id) == [truck_id |-> truck_id, status |-> CHECKED_IN]

\* The active items of the catalog.
MenuItemIds == {1, 2}

\* MenuItem.base_price_cents of the seeded catalog item.
base_price_cents(menu_item_id) == 1499

\* A TruckMenuItem row with the column defaults of the table.
TruckMenuItem(shift_id, menu_item_id, is_special, price, stock_count, threshold) ==
    [shift_id |-> shift_id, menu_item_id |-> menu_item_id, is_special |-> is_special,
     visible |-> TRUE, price_override_cents |-> price,
     stock_count |-> stock_count, out_of_stock |-> FALSE,
     low_stock_threshold |-> threshold]

\* The menu at the start: a stocked catalog item and a stocked special on
\* shift 1, an unlimited catalog item (as _ensure_truck_menu_item creates
\* it) on shift 2.
InitialItems ==
    (1 :> TruckMenuItem(1, <<1>>, FALSE, Null, <<MaxStock>>, 2)) @@
    (2 :> TruckMenuItem(1, Null, TRUE, <<500>>, <<1>>, 0)) @@
    (3 :> TruckMenuItem(2, <<1>>, FALSE, Null, Null, 2))

\* An Order row as create_customer_order builds it.
Order(shift_id, subtotal, customer_phone) ==
    [shift_id |-> shift_id, state |-> S_NEW, previous_state |-> None,
     customer_phone |-> customer_phone,
     total_cents |-> subtotal, loyalty_points_awarded |-> 0,
     on_hold_until |-> Null, hold_reason |-> None, prep_completed_at |-> FALSE,
     cancellation_reason |-> None, canceled_at |-> FALSE,
     refund_reason |-> None, refunded_at |-> FALSE,
     payment_reference |-> None, auto_reconciled_at |-> FALSE]

OrderItem(tmi_id, qty, price) ==
    [truck_menu_item_id |-> tmi_id, qty |-> qty, price_cents |-> price]

InventoryAdjustment(shift_id, tmi_id, delta, reason) ==
    [shift_id |-> shift_id, truck_menu_item_id |-> tmi_id, delta |-> delta, reason |-> reason]

\* The HTTP response of a request: the handler, the row it addressed, its
\* main argument and the status code.
Response(op, id, arg, status) == [op |-> op, id |-> id, arg |-> arg, status |-> status]

Event_mutant(shift_id, name) == [shift_id |-> 1, event |-> name]

Event(shift_id, name) == [shift_id |-> shift_id, event |-> name]

\* A call of notification_service.notify_low_stock / notify_new_order.
Notification(shift_id, name) == [shift_id |-> shift_id, notify |-> name]

LoyaltyLedger(customer_phone, points, order_id) ==
    [customer_phone |-> customer_phone, points |-> points, order_id |-> order_id]

\* The shift in the path of a display's websocket: displays 1 and 2 are on
\* shift 1, display 3 on shift 2.
ConnectionShift(ws) == IF ws = 3 THEN 2 ELSE 1

\* A display's websocket before ws_shift has run.  `link` is the transport:
\* "new" before the handshake, "open", "stalled" (the peer has stopped
\* reading: a send does not complete), "broken" (the peer is gone and the
\* read loop has not noticed yet) and "closed" (the read loop has ended).
Connection(shift_id) == [shift_id |-> shift_id, link |-> "new"]

\* A worker thread with no request.
Thread ==
    [pc |-> "idle", events |-> <<>>, running |-> FALSE, shift_id |-> 0, event |-> None,
     snapshot |-> {}, todo |-> <<>>, sent |-> {}, dead |-> <<>>]

Init ==
    /\ shifts = [s \in ShiftIds |-> TruckShift(s)]
    /\ orders = <<>>
    /\ order_items = <<>>
    /\ truck_menu_items = InitialItems
    /\ inventory_adjustments = <<>>
    /\ loyalty_ledger = <<>>
    /\ sessions = <<>>
    /\ response = Response("none", 0, None, 0)
    /\ emitted = <<>>
    /\ notifications = <<>>
    /\ clients = <<>>
    /\ connections = [ws \in Connections |-> Connection(ConnectionShift(ws))]
    /\ received = [ws \in Connections |-> <<>>]
    /\ threads = [t \in Threads |-> Thread]

\* ------------------------------------------------- order state machine

ALLOWED_ADVANCES_mutant(state) ==
    CASE state = S_PAID -> {S_IN_QUEUE, S_IN_PROGRESS}
      [] state = S_IN_QUEUE -> {S_IN_PROGRESS, S_ON_HOLD}
      [] state = S_IN_PROGRESS -> {S_READY, S_ON_HOLD}
      [] state = S_ON_HOLD -> {S_IN_PROGRESS, S_IN_QUEUE}
      [] state = S_READY -> {S_PICKED_UP}
      [] state = S_PICKED_UP -> {S_READY}
      [] OTHER -> {}

ALLOWED_ADVANCES_any_mutant(state) == AdvanceTargets

\* ALLOWED_ADVANCES.get(o.state, [])
ALLOWED_ADVANCES(state) ==
    CASE state = S_PAID -> {S_IN_QUEUE, S_IN_PROGRESS}
      [] state = S_IN_QUEUE -> {S_IN_PROGRESS, S_ON_HOLD}
      [] state = S_IN_PROGRESS -> {S_READY, S_ON_HOLD}
      [] state = S_ON_HOLD -> {S_IN_PROGRESS, S_IN_QUEUE}
      [] state = S_READY -> {S_PICKED_UP}
      [] OTHER -> {}

Advanced_mutant(o, to) ==
    [o EXCEPT !.previous_state = o.state,
              !.state = to,
              !.prep_completed_at = IF to = S_READY THEN TRUE ELSE @]

\* The row after a permitted advance.
Advanced(o, to) ==
    [o EXCEPT !.previous_state = o.state,
              !.state = to,
              !.prep_completed_at = IF to = S_READY THEN TRUE ELSE @,
              !.on_hold_until = IF to # S_ON_HOLD THEN Null ELSE @,
              !.hold_reason = IF to # S_ON_HOLD THEN None ELSE @]

advance(order_id, to) ==
    /\ IF order_id \notin DOMAIN orders
       THEN /\ response' = Response("advance", order_id, to, 404)
            /\ emitted' = <<>>
            /\ UNCHANGED orders
       ELSE LET o == orders[order_id] IN
            IF to \notin ALLOWED_ADVANCES(o.state)
            THEN /\ response' = Response("advance", order_id, to, 400)
                 /\ emitted' = <<>>
                 /\ UNCHANGED orders
            ELSE /\ orders' = [orders EXCEPT ![order_id] = Advanced(o, to)]
                 /\ response' = Response("advance", order_id, to, 200)
                 /\ emitted' = <<Event(o.shift_id, "order_advanced")>>
    /\ notifications' = <<>>
    /\ UNCHANGED <<shifts, order_items, truck_menu_items, inventory_adjustments, loyalty_ledger, sessions>>

HoldAllowed_mutant(state) == state \in {S_PAID, S_IN_QUEUE, S_IN_PROGRESS}

\* order.state in {IN_QUEUE, IN_PROGRESS}
HoldAllowed(state) == state \in {S_IN_QUEUE, S_IN_PROGRESS}

\* The row after a permitted hold.
Held(order, minutes, reason) ==
    [order EXCEPT !.previous_state = order.state,
                  !.state = S_ON_HOLD,
                  !.on_hold_until = <<minutes>>,
                  !.hold_reason = reason]

hold_order(order_id, minutes, reason) ==
    /\ IF order_id \notin DOMAIN orders
       THEN /\ response' = Response("hold", order_id, reason, 404)
            /\ emitted' = <<>>
            /\ UNCHANGED orders
       ELSE LET order == orders[order_id] IN
            IF ~HoldAllowed(order.state)
            THEN /\ response' = Response("hold", order_id, reason, 400)
                 /\ emitted' = <<>>
                 /\ UNCHANGED orders
            ELSE /\ orders' = [orders EXCEPT ![order_id] = Held(order, minutes, reason)]
                 /\ response' = Response("hold", order_id, reason, 200)
                 /\ emitted' = <<Event(order.shift_id, "order_hold")>>
    /\ notifications' = <<>>
    /\ UNCHANGED <<shifts, order_items, truck_menu_items, inventory_adjustments, loyalty_ledger, sessions>>

ResumeState_mutant(order) == S_IN_QUEUE

\* order.previous_state or OrderState.IN_QUEUE
ResumeState(order) ==
    IF order.previous_state = None THEN S_IN_QUEUE ELSE order.previous_state

Resumed_mutant(order) ==
    [order EXCEPT !.state = ResumeState(order),
                  !.on_hold_until = Null,
                  !.hold_reason = None]

\* The row after a permitted resume.
Resumed(order) ==
    [order EXCEPT !.state = ResumeState(order),
                  !.previous_state = None,
                  !.on_hold_until = Null,
                  !.hold_reason = None]

resume_order(order_id) ==
    /\ IF order_id \notin DOMAIN orders
       THEN /\ response' = Response("resume", order_id, None, 404)
            /\ emitted' = <<>>
            /\ UNCHANGED orders
       ELSE LET order == orders[order_id] IN
            IF order.state # S_ON_HOLD
            THEN /\ response' = Response("resume", order_id, None, 400)
                 /\ emitted' = <<>>
                 /\ UNCHANGED orders
            ELSE /\ orders' = [orders EXCEPT ![order_id] = Resumed(order)]
                 /\ response' = Response("resume", order_id, None, 200)
                 /\ emitted' = <<Event(order.shift_id, "order_resume")>>
    /\ notifications' = <<>>
    /\ UNCHANGED <<shifts, order_items, truck_menu_items, inventory_adjustments, loyalty_ledger, sessions>>

Closed_mutant(state) == state \in {S_PICKED_UP, S_CANCELED, S_REFUNDED, S_READY}

\* order.state in {PICKED_UP, CANCELED, REFUNDED}
Closed(state) == state \in {S_PICKED_UP, S_CANCELED, S_REFUNDED}

\* payload.refundReason or payload.reason
RefundReason(reason, refundReason) == IF refundReason = None THEN reason ELSE refundReason

\* The row after a permitted cancel.
Canceled(order, reason, refund, refundReason) ==
    IF refund
    THEN [order EXCEPT !.previous_state = order.state,
                       !.cancellation_reason = reason,
                       !.canceled_at = TRUE,
                       !.state = S_REFUNDED,
                       !.refund_reason = RefundReason(reason, refundReason),
                       !.refunded_at = TRUE]
    ELSE [order EXCEPT !.previous_state = order.state,
                       !.cancellation_reason = reason,
                       !.canceled_at = TRUE,
                       !.state = S_CANCELED]

\* A cancel that puts the first line's qty back on its item.
cancel_order_mutant(order_id, reason, refund, refundReason) ==
    /\ IF order_id \notin DOMAIN orders
       THEN /\ response' = Response("cancel", order_id, IF refund THEN "refund" ELSE "cancel", 404)
            /\ emitted' = <<>>
            /\ UNCHANGED <<orders, truck_menu_items>>
       ELSE LET order == orders[order_id] IN
            IF Closed(order.state)
            THEN /\ response' = Response("cancel", order_id, IF refund THEN "refund" ELSE "cancel", 400)
                 /\ emitted' = <<>>
                 /\ UNCHANGED <<orders, truck_menu_items>>
            ELSE /\ orders' = [orders EXCEPT ![order_id] =
                        Canceled(order, reason, refund, refundReason)]
                 /\ response' = Response("cancel", order_id, IF refund THEN "refund" ELSE "cancel", 200)
                 /\ emitted' = <<Event(order.shift_id, "order_cancel")>>
                 /\ LET line == order_items[order_id][1]
                        i == line.truck_menu_item_id
                    IN truck_menu_items' =
                         IF order.state # S_NEW /\ truck_menu_items[i].stock_count # Null
                         THEN [truck_menu_items EXCEPT ![i].stock_count = <<@[1] + line.qty>>]
                         ELSE truck_menu_items
    /\ notifications' = <<>>
    /\ UNCHANGED <<shifts, order_items, inventory_adjustments, loyalty_ledger, sessions>>

cancel_order(order_id, reason, refund, refundReason) ==
    /\ IF order_id \notin DOMAIN orders
       THEN /\ response' = Response("cancel", order_id, IF refund THEN "refund" ELSE "cancel", 404)
            /\ emitted' = <<>>
            /\ UNCHANGED orders
       ELSE LET order == orders[order_id] IN
            IF Closed(order.state)
            THEN /\ response' = Response("cancel", order_id, IF refund THEN "refund" ELSE "cancel", 400)
                 /\ emitted' = <<>>
                 /\ UNCHANGED orders
            ELSE /\ orders' = [orders EXCEPT ![order_id] =
                        Canceled(order, reason, refund, refundReason)]
                 /\ response' = Response("cancel", order_id, IF refund THEN "refund" ELSE "cancel", 200)
                 /\ emitted' = <<Event(order.shift_id, "order_cancel")>>
    /\ notifications' = <<>>
    /\ UNCHANGED <<shifts, order_items, truck_menu_items, inventory_adjustments, loyalty_ledger, sessions>>

BulkReady_mutant(shift_id, orderIds) ==
    {id \in DOMAIN orders : id \in orderIds /\ orders[id].state = S_READY}

\* The rows of select(Order).where(Order.id.in_(orderIds), Order.shift_id == shift_id)
\* that are READY.
BulkReady(shift_id, orderIds) ==
    {id \in DOMAIN orders : /\ id \in orderIds
                            /\ orders[id].shift_id = shift_id
                            /\ orders[id].state = S_READY}

bulk_advance_ready(shift_id, orderIds) ==
    /\ IF orderIds = {}
       THEN /\ response' = Response("bulk_advance", shift_id, None, 400)
            /\ emitted' = <<>>
            /\ UNCHANGED orders
       ELSE LET ready == BulkReady(shift_id, orderIds)
                updated == Cardinality(ready) IN
            /\ orders' = [id \in DOMAIN orders |->
                            IF id \in ready
                            THEN [orders[id] EXCEPT !.state = S_PICKED_UP]
                            ELSE orders[id]]
            /\ response' = Response("bulk_advance", shift_id, ToString(updated), 200)
            /\ emitted' = IF updated # 0 THEN <<Event(shift_id, "bulk_advance")>> ELSE <<>>
    /\ notifications' = <<>>
    /\ UNCHANGED <<shifts, order_items, truck_menu_items, inventory_adjustments, loyalty_ledger, sessions>>

\* ------------------------------------------------------ order submission

\* The price create_customer_order captures for a line: the override, else
\* the catalog item's base price, else none.
Price(tmi) ==
    IF tmi.price_override_cents # Null THEN tmi.price_override_cents
    ELSE IF tmi.menu_item_id # Null THEN <<base_price_cents(tmi.menu_item_id[1])>>
    ELSE Null

ValidLine_mutant(item, shiftId) ==
    /\ item.truckMenuItemId \in DOMAIN truck_menu_items
    /\ truck_menu_items[item.truckMenuItemId].visible
    /\ Price(truck_menu_items[item.truckMenuItemId]) # Null

\* The checks of one submitted line; a line that fails any raises 400.
ValidLine(item, shiftId) ==
    /\ item.truckMenuItemId \in DOMAIN truck_menu_items
    /\ LET tmi == truck_menu_items[item.truckMenuItemId] IN
       /\ tmi.shift_id = shiftId
       /\ tmi.visible
       /\ Price(tmi) # Null

RECURSIVE Subtotal(_)
Subtotal(ois) == IF ois = <<>> THEN 0 ELSE Head(ois).price_cents * Head(ois).qty + Subtotal(Tail(ois))

create_customer_order(shiftId, items, customerPhone) ==
    /\ IF shiftId \notin DOMAIN shifts
       THEN /\ response' = Response("create_order", 0, None, 404)
            /\ emitted' = <<>>
            /\ UNCHANGED <<orders, order_items>>
       ELSE IF items = <<>> \/ \E i \in 1..Len(items) : ~ValidLine(items[i], shiftId)
       THEN /\ response' = Response("create_order", 0, None, 400)
            /\ emitted' = <<>>
            /\ UNCHANGED <<orders, order_items>>
       ELSE LET id == Cardinality(DOMAIN orders) + 1
                ois == [i \in 1..Len(items) |->
                          OrderItem(items[i].truckMenuItemId, items[i].qty,
                                    Price(truck_menu_items[items[i].truckMenuItemId])[1])]
            IN /\ id \in OrderIds
               /\ orders' = orders @@ (id :> Order(shiftId, Subtotal(ois), customerPhone))
               /\ order_items' = order_items @@ (id :> ois)
               /\ response' = Response("create_order", id, None, 200)
               /\ emitted' = <<Event(shiftId, "new_customer_order")>>
    /\ notifications' = <<>>
    /\ UNCHANGED <<shifts, truck_menu_items, inventory_adjustments, loyalty_ledger, sessions>>

\* ------------------------------------------------ payment confirmation

Lower_mutant(status) == "paid"

\* payload.status.lower()
Lower(status) == IF status = "PAID" THEN "paid" ELSE status

PaymentApplies_mutant(state) == state \in {S_NEW, S_PAID, S_CANCELED}

\* order.state in {NEW, PAID}: the states in which a "paid" callback is applied.
PaymentApplies(state) == state \in {S_NEW, S_PAID}

InsufficientStock_mutant(tmi, qty) == tmi.stock_count[1] <= qty

\* tmi.stock_count < item.qty
InsufficientStock(tmi, qty) == tmi.stock_count[1] < qty

\* The stock effect of one order line on its item.
reserve(tmi, qty) ==
    LET n == tmi.stock_count[1] - qty IN
    [tmi EXCEPT !.stock_count = <<n>>,
                !.out_of_stock = IF n = 0 THEN TRUE ELSE @]

\* A loop that reads an absent stock count as 0.
RECURSIVE reserve_items_mutant(_, _, _, _)
reserve_items_mutant(items, tmis, adjustments, shift_id) ==
    IF items = <<>>
    THEN [raised |-> FALSE, truck_menu_items |-> tmis, inventory_adjustments |-> adjustments]
    ELSE LET item == Head(items)
             id == item.truck_menu_item_id
         IN IF id \in DOMAIN tmis
            THEN IF OrZero(tmis[id].stock_count) < item.qty
                 THEN [raised |-> TRUE, truck_menu_items |-> tmis,
                       inventory_adjustments |-> adjustments]
                 ELSE reserve_items_mutant(Tail(items),
                        [tmis EXCEPT ![id].stock_count = <<OrZero(@) - item.qty>>],
                        Append(adjustments,
                               InventoryAdjustment(shift_id, id, -item.qty, "payment_notification")),
                        shift_id)
            ELSE reserve_items_mutant(Tail(items), tmis, adjustments, shift_id)

\* The loop over the order's lines, on the rows held by the session.  It
\* stops at the line that raises 409, with the earlier lines' changes staged.
RECURSIVE reserve_items(_, _, _, _)
reserve_items(items, tmis, adjustments, shift_id) ==
    IF items = <<>>
    THEN [raised |-> FALSE, truck_menu_items |-> tmis, inventory_adjustments |-> adjustments]
    ELSE LET item == Head(items)
             id == item.truck_menu_item_id
         IN IF id \in DOMAIN tmis /\ tmis[id].stock_count # Null
            THEN IF InsufficientStock(tmis[id], item.qty)
                 THEN [raised |-> TRUE, truck_menu_items |-> tmis,
                       inventory_adjustments |-> adjustments]
                 ELSE reserve_items(Tail(items),
                        [tmis EXCEPT ![id] = reserve(tmis[id], item.qty)],
                        Append(adjustments,
                               InventoryAdjustment(shift_id, id, -item.qty, "payment_notification")),
                        shift_id)
            ELSE reserve_items(Tail(items), tmis, adjustments, shift_id)

SessionOutcome_mutant(committed, staged, raised) == staged

\* What the store holds once the request's session is closed: the staged
\* rows after session.commit(), the rows as they were when the handler
\* raised before reaching it.
SessionOutcome(committed, staged, raised) == IF raised THEN committed ELSE staged

\* points_base: order.total_cents or 0, else the sum over the order's lines.
points_base(order, items) ==
    IF order.total_cents > 0 THEN order.total_cents ELSE Subtotal(items)

\* points = max(1, points_base // 1000) when points_base > 0, else 0
loyalty_points(base) == IF base > 0 THEN Max(1, base \div 1000) ELSE 0

\* The order row after the loyalty step that follows the commit of the
\* reservation: total_cents filled in from the lines when it was 0, and the
\* points stamped when the order has a phone.
awarded(order, items) ==
    LET base == points_base(order, items)
        points == loyalty_points(base)
    IN [order EXCEPT !.total_cents = IF order.total_cents <= 0 /\ base # 0 THEN base ELSE @,
                     !.loyalty_points_awarded =
                         IF order.customer_phone # None /\ points # 0 THEN points ELSE @]

\* The loyalty ledger after that step.
award_loyalty(ledger, order, orderId, items) ==
    LET points == loyalty_points(points_base(order, items))
    IN IF order.customer_phone # None /\ points # 0
       THEN Append(ledger, LoyaltyLedger(order.customer_phone, points, orderId))
       ELSE ledger

\* The handler, with the notification dispatcher working or raising
\* (`dispatch_fails`) when it is called.  notify_new_order is called after
\* the commit of the reservation and before the loyalty step, outside any
\* try: when it raises, the request ends there with 500.
payment_webhook_notifying(orderId, status, transactionId, dispatch_fails) ==
    /\ IF orderId \notin DOMAIN orders
       THEN /\ response' = Response("payment_webhook", orderId, status, 404)
            /\ emitted' = <<>>
            /\ notifications' = <<>>
            /\ UNCHANGED <<orders, truck_menu_items, inventory_adjustments, loyalty_ledger>>
       ELSE LET order == orders[orderId] IN
            IF Lower(status) # "paid"
            THEN /\ response' = Response("payment_webhook", orderId, "ignored", 200)
                 /\ emitted' = <<>>
                 /\ notifications' = <<>>
                 /\ UNCHANGED <<orders, truck_menu_items, inventory_adjustments, loyalty_ledger>>
            ELSE IF ~PaymentApplies(order.state)
            THEN /\ response' = Response("payment_webhook", orderId, order.state, 200)
                 /\ emitted' = <<>>
                 /\ notifications' = <<>>
                 /\ UNCHANGED <<orders, truck_menu_items, inventory_adjustments, loyalty_ledger>>
            ELSE LET paid == [order EXCEPT !.state = S_PAID,
                                           !.payment_reference = transactionId]
                     r == reserve_items(order_items[orderId], truck_menu_items,
                                        inventory_adjustments, order.shift_id)
                     notified == order.shift_id \in DOMAIN shifts
                     failed == notified /\ dispatch_fails
                 IN /\ orders' = SessionOutcome(orders,
                                     [orders EXCEPT ![orderId] =
                                         IF failed THEN paid
                                         ELSE awarded(paid, order_items[orderId])],
                                     r.raised)
                    /\ truck_menu_items' =
                           SessionOutcome(truck_menu_items, r.truck_menu_items, r.raised)
                    /\ inventory_adjustments' =
                           SessionOutcome(inventory_adjustments, r.inventory_adjustments, r.raised)
                    /\ loyalty_ledger' =
                           IF r.raised \/ failed THEN loyalty_ledger
                           ELSE award_loyalty(loyalty_ledger, paid, orderId, order_items[orderId])
                    /\ response' = Response("payment_webhook", orderId, status,
                                            IF r.raised THEN 409
                                            ELSE IF failed THEN 500 ELSE 200)
                    /\ emitted' = IF r.raised \/ failed THEN <<>>
                                  ELSE <<Event(order.shift_id, "payment_received")>>
                    /\ notifications' = IF r.raised \/ ~notified THEN <<>>
                                        ELSE <<Notification(order.shift_id, "new_order")>>
    /\ UNCHANGED <<shifts, order_items, sessions>>

\* The handler with the dispatcher working.
payment_webhook(orderId, status, transactionId) ==
    payment_webhook_notifying(orderId, status, transactionId, FALSE)

PaidOrders_mutant(shiftId) == {id \in DOMAIN orders : orders[id].state = S_PAID}

\* select(Order).where(Order.shift_id == shiftId, Order.state == PAID)
PaidOrders(shiftId) ==
    {id \in DOMAIN orders : orders[id].shift_id = shiftId /\ orders[id].state = S_PAID}

auto_reconcile(shiftId) ==
    /\ LET paid == PaidOrders(shiftId) IN
       /\ orders' = [id \in DOMAIN orders |->
                       IF id \in paid
                       THEN [orders[id] EXCEPT !.state = S_IN_QUEUE, !.auto_reconciled_at = TRUE]
                       ELSE orders[id]]
       /\ response' = Response("reconcile", shiftId, ToString(Cardinality(paid)), 200)
    /\ emitted' = <<>>
    /\ notifications' = <<>>
    /\ UNCHANGED <<shifts, order_items, truck_menu_items, inventory_adjustments, loyalty_ledger, sessions>>

\* ------------------------------------------------------ inventory edits

InventoryUpdate(truckMenuItemId, menuItemId, stockCount, outOfStock) ==
    [truckMenuItemId |-> truckMenuItemId, menuItemId |-> menuItemId,
     stockCount |-> stockCount, outOfStock |-> outOfStock]

\* Python's truth value of an Optional[int] id.
Truthy(x) == x # Null /\ x[1] # 0

\* The row an update addresses: by primary key, else the shift's row of the
\* catalog item; Null when there is none.
find_tmi(upd, tmis, shift_id) ==
    IF Truthy(upd.truckMenuItemId)
    THEN IF upd.truckMenuItemId[1] \in DOMAIN tmis THEN upd.truckMenuItemId ELSE Null
    ELSE IF Truthy(upd.menuItemId)
    THEN LET rows == {i \in DOMAIN tmis : /\ tmis[i].shift_id = shift_id
                                          /\ tmis[i].menu_item_id = upd.menuItemId}
         IN IF rows = {} THEN Null
            ELSE <<CHOOSE i \in rows : \A j \in rows : i <= j>>
    ELSE Null

set_stock_mutant(tmi, stockCount) == [tmi EXCEPT !.stock_count = stockCount]

\* tmi.stock_count = max(0, upd.stockCount)
set_stock(tmi, stockCount) == [tmi EXCEPT !.stock_count = <<Max(0, stockCount[1])>>]

stock_delta_mutant(previous, current) == current.stock_count[1]

\* delta = new_stock - (tmi.stock_count or 0)
stock_delta(previous, current) == current.stock_count[1] - OrZero(previous.stock_count)

\* tmi.out_of_stock or (stock_count is not None and stock_count <= threshold)
is_low_stock(tmi) ==
    tmi.out_of_stock \/ (tmi.stock_count # Null /\ tmi.stock_count[1] <= tmi.low_stock_threshold)

\* One update applied to its row.
apply_update(tmi, upd) ==
    LET stocked == IF upd.stockCount # Null THEN set_stock(tmi, upd.stockCount) ELSE tmi
    IN IF upd.outOfStock # Null THEN [stocked EXCEPT !.out_of_stock = upd.outOfStock[1]]
       ELSE stocked

\* The loop over payload.updates on the rows held by the session.  It stops
\* at the update that raises 404, with the earlier updates staged.
RECURSIVE apply_updates(_, _, _, _, _)
apply_updates(updates, tmis, adjustments, low_stock_items, shift_id) ==
    IF updates = <<>>
    THEN [raised |-> FALSE, truck_menu_items |-> tmis,
          inventory_adjustments |-> adjustments, low_stock_items |-> low_stock_items]
    ELSE LET upd == Head(updates)
             found == find_tmi(upd, tmis, shift_id)
         IN IF found = Null
            THEN [raised |-> TRUE, truck_menu_items |-> tmis,
                  inventory_adjustments |-> adjustments, low_stock_items |-> low_stock_items]
            ELSE LET id == found[1]
                     tmi == apply_update(tmis[id], upd)
                     delta == IF upd.stockCount # Null THEN stock_delta(tmis[id], tmi) ELSE 0
                 IN apply_updates(Tail(updates),
                        [tmis EXCEPT ![id] = tmi],
                        IF delta # 0
                        THEN Append(adjustments,
                                    InventoryAdjustment(shift_id, id, delta, "manual_adjustment"))
                        ELSE adjustments,
                        IF is_low_stock(tmi) THEN Append(low_stock_items, id) ELSE low_stock_items,
                        shift_id)

\* The handler, with the notification dispatcher working or raising
\* (`dispatch_fails`) when it is called.  After the commit the loop over the
\* low items submits the item's event and then calls notify_low_stock,
\* outside any try: when the call raises, the request ends there with 500.
update_inventory_notifying(shift_id, updates, dispatch_fails) ==
    /\ IF shift_id \notin DOMAIN shifts
       THEN /\ response' = Response("update_inventory", shift_id, None, 404)
            /\ emitted' = <<>>
            /\ notifications' = <<>>
            /\ UNCHANGED <<truck_menu_items, inventory_adjustments>>
       ELSE LET r == apply_updates(updates, truck_menu_items, inventory_adjustments,
                                   <<>>, shift_id)
            IN /\ truck_menu_items' =
                      SessionOutcome(truck_menu_items, r.truck_menu_items, r.raised)
               /\ inventory_adjustments' =
                      SessionOutcome(inventory_adjustments, r.inventory_adjustments, r.raised)
               /\ LET failed == ~r.raised /\ dispatch_fails /\ r.low_stock_items # <<>>
                      reached == IF failed THEN 1 ELSE Len(r.low_stock_items)
                  IN /\ response' = Response("update_inventory", shift_id, None,
                                             IF r.raised THEN 404
                                             ELSE IF failed THEN 500 ELSE 204)
                     /\ emitted' = IF r.raised THEN <<>>
                                   ELSE [i \in 1..reached |-> Event(shift_id, "low_stock")]
                     /\ notifications' = IF r.raised THEN <<>>
                                         ELSE [i \in 1..reached |->
                                                 Notification(shift_id, "low_stock")]
    /\ UNCHANGED <<shifts, orders, order_items, loyalty_ledger, sessions>>

\* The handler with the dispatcher working.
update_inventory(shift_id, updates) == update_inventory_notifying(shift_id, updates, FALSE)

\* update_inventory as two steps of one request `r`, for requests that run
\* side by side in the thread pool, each with its own session.  The first
\* step is everything up to session.commit(): the rows are read and the
\* new values computed from them, nothing is written.  The second is the
\* commit: the session writes the columns it changed and inserts its
\* ledger entries.  Nothing orders the two steps of one request with
\* respect to the steps of another.
update_inventory_begin(r, shift_id, updates) ==
    /\ r \notin DOMAIN sessions
    /\ shift_id \in DOMAIN shifts
    /\ LET s == apply_updates(updates, truck_menu_items, <<>>, <<>>, shift_id)
       IN IF s.raised
          THEN /\ response' = Response("update_inventory", shift_id, None, 404)
               /\ emitted' = <<>>
               /\ notifications' = <<>>
               /\ UNCHANGED sessions
          ELSE /\ sessions' = sessions @@
                      (r :> [shift_id |-> shift_id,
                             loaded |-> truck_menu_items,
                             staged |-> s.truck_menu_items,
                             inventory_adjustments |-> s.inventory_adjustments,
                             low_stock_items |-> s.low_stock_items])
               /\ UNCHANGED <<response, emitted, notifications>>
    /\ UNCHANGED <<shifts, orders, order_items, truck_menu_items, inventory_adjustments, loyalty_ledger>>

\* The UPDATE of a flush: the columns whose value the session changed are
\* written, the others are left as the store has them.
flush(current, loaded, staged) ==
    [id \in DOMAIN current |->
        [current[id] EXCEPT
           !.stock_count = IF staged[id].stock_count # loaded[id].stock_count
                           THEN staged[id].stock_count ELSE @,
           !.out_of_stock = IF staged[id].out_of_stock # loaded[id].out_of_stock
                            THEN staged[id].out_of_stock ELSE @]]

update_inventory_commit(r) ==
    /\ r \in DOMAIN sessions
    /\ LET s == sessions[r]
       IN /\ truck_menu_items' = flush(truck_menu_items, s.loaded, s.staged)
          /\ inventory_adjustments' = inventory_adjustments \o s.inventory_adjustments
          /\ response' = Response("update_inventory", s.shift_id, None, 204)
          /\ emitted' = [i \in 1..Len(s.low_stock_items) |-> Event(s.shift_id, "low_stock")]
          /\ notifications' = [i \in 1..Len(s.low_stock_items) |->
                                  Notification(s.shift_id, "low_stock")]
    /\ sessions' = [q \in DOMAIN sessions \ {r} |-> sessions[q]]
    /\ UNCHANGED <<shifts, orders, order_items, loyalty_ledger>>

\* SpecialUpdate as model_dump(exclude_unset=True) gives it: whether
\* stock_count was sent, its value, and out_of_stock (Null: unset or null).
SpecialUpdate(has_stock_count, stock_count, out_of_stock) ==
    [has_price_cents |-> FALSE, price_cents |-> Null,
     has_stock_count |-> has_stock_count, stock_count |-> stock_count,
     out_of_stock |-> out_of_stock]

\* A payload that sets price_cents only (null clears the price).
SpecialPrice(price_cents) ==
    [has_price_cents |-> TRUE, price_cents |-> price_cents,
     has_stock_count |-> FALSE, stock_count |-> Null, out_of_stock |-> Null]

\* delta = (spec.stock_count or 0) - (previous stock_count or 0)
special_delta(previous, current) ==
    OrZero(current.stock_count) - OrZero(previous.stock_count)

update_special(shift_id, special_id, data) ==
    /\ IF \/ special_id \notin DOMAIN truck_menu_items
          \/ truck_menu_items[special_id].shift_id # shift_id
          \/ ~truck_menu_items[special_id].is_special
       THEN /\ response' = Response("update_special", special_id, None, 404)
            /\ UNCHANGED <<truck_menu_items, inventory_adjustments>>
       ELSE LET found == truck_menu_items[special_id]
                spec == IF data.has_price_cents
                        THEN [found EXCEPT !.price_override_cents = data.price_cents]
                        ELSE found
                stocked == IF data.has_stock_count
                           THEN [spec EXCEPT !.stock_count = data.stock_count]
                           ELSE spec
                delta == IF data.has_stock_count THEN special_delta(spec, stocked) ELSE 0
                updated == IF data.out_of_stock # Null
                           THEN [stocked EXCEPT !.out_of_stock = data.out_of_stock[1]]
                           ELSE stocked
            IN /\ truck_menu_items' = [truck_menu_items EXCEPT ![special_id] = updated]
               /\ inventory_adjustments' =
                      IF delta # 0
                      THEN Append(inventory_adjustments,
                                  InventoryAdjustment(shift_id, special_id, delta, "special_update"))
                      ELSE inventory_adjustments
               /\ response' = Response("update_special", special_id, None, 200)
    /\ emitted' = <<>>
    /\ notifications' = <<>>
    /\ UNCHANGED <<shifts, orders, order_items, loyalty_ledger, sessions>>

\* ------------------------------------------------------------- shifts

checkout(shift_id) ==
    /\ IF shift_id \notin DOMAIN shifts
       THEN /\ response' = Response("checkout", shift_id, None, 404)
            /\ emitted' = <<>>
            /\ UNCHANGED shifts
       ELSE /\ shifts' = [shifts EXCEPT ![shift_id].status = CHECKED_OUT]
            /\ response' = Response("checkout", shift_id, None, 204)
            /\ emitted' = <<Event(shift_id, "resume")>>
    /\ notifications' = <<>>
    /\ UNCHANGED <<orders, order_items, truck_menu_items, inventory_adjustments,
                   loyalty_ledger, sessions>>

\* The catalog items that have no row of their own on the shift: the rows
\* _ensure_truck_menu_item adds.
missing_menu_items(tmis, shift_id) ==
    {m \in MenuItemIds :
        ~\E i \in DOMAIN tmis : /\ tmis[i].shift_id = shift_id
                                 /\ tmis[i].menu_item_id = <<m>>
                                 /\ ~tmis[i].is_special}

\* DELETE /api/menu/shift/{shift_id}/specials/{special_id}: the row is
\* deleted when it is a special of the shift.  No order line is looked at,
\* and the store (SQLite, on connections that never turn foreign-key
\* enforcement on) accepts the delete of a row that lines still reference.
delete_special(shift_id, special_id) ==
    /\ IF \/ special_id \notin DOMAIN truck_menu_items
          \/ truck_menu_items[special_id].shift_id # shift_id
          \/ ~truck_menu_items[special_id].is_special
       THEN /\ response' = Response("delete_special", special_id, None, 404)
            /\ UNCHANGED truck_menu_items
       ELSE /\ truck_menu_items' =
                  [i \in DOMAIN truck_menu_items \ {special_id} |-> truck_menu_items[i]]
            /\ response' = Response("delete_special", special_id, None, 204)
    /\ emitted' = <<>>
    /\ notifications' = <<>>
    /\ UNCHANGED <<shifts, orders, order_items, inventory_adjustments, loyalty_ledger, sessions>>

\* The id the store gives the next row of a table.
next_id(table) == IF DOMAIN table = {} THEN 1
                  ELSE (CHOOSE i \in DOMAIN table : \A j \in DOMAIN table : j <= i) + 1

\* The loop of customer_menu over the catalog, in the catalog's order: each
\* missing row is added with the column defaults.
RECURSIVE ensure_truck_menu_items(_, _, _)
ensure_truck_menu_items(tmis, shift_id, missing) ==
    IF missing = {} THEN tmis
    ELSE LET m == CHOOSE x \in missing : \A y \in missing : x <= y
         IN ensure_truck_menu_items(
                tmis @@ (next_id(tmis) :> TruckMenuItem(shift_id, <<m>>, FALSE, Null, Null, 2)),
                shift_id, missing \ {m})

\* GET /api/customer/menu/{shift_id}
customer_menu(shift_id) ==
    /\ IF shift_id \notin DOMAIN shifts
       THEN /\ response' = Response("customer_menu", shift_id, None, 404)
            /\ UNCHANGED truck_menu_items
       ELSE /\ truck_menu_items' =
                  ensure_truck_menu_items(truck_menu_items, shift_id,
                                          missing_menu_items(truck_menu_items, shift_id))
            /\ response' = Response("customer_menu", shift_id, None, 200)
    /\ emitted' = <<>>
    /\ notifications' = <<>>
    /\ UNCHANGED <<shifts, orders, order_items, inventory_adjustments, loyalty_ledger, sessions>>

\* The Location rows.
Locations == {1}

open_shifts_mutant(sh, truck_id) ==
    {s \in DOMAIN sh : sh[s].truck_id = truck_id /\ sh[s].status = CHECKED_IN}

\* select(TruckShift).where(truck_id == truck_id, status != CHECKED_OUT)
open_shifts(sh, truck_id) ==
    {s \in DOMAIN sh : sh[s].truck_id = truck_id /\ sh[s].status # CHECKED_OUT}

\* POST /api/mobile/shift/checkin; 0 stands for an id that is absent (or 0)
\* in the payload.  The truck's shifts that are not checked out are checked
\* out and a new CHECKED_IN shift is added.
checkin(truck_id, location_id) ==
    /\ IF truck_id = 0 \/ location_id = 0
       THEN /\ response' = Response("checkin", 0, None, 400)
            /\ UNCHANGED shifts
       ELSE IF location_id \notin Locations
       THEN /\ response' = Response("checkin", 0, None, 404)
            /\ UNCHANGED shifts
       ELSE LET prev == open_shifts(shifts, truck_id)
                closed == [s \in DOMAIN shifts |->
                             IF s \in prev THEN [shifts[s] EXCEPT !.status = CHECKED_OUT]
                             ELSE shifts[s]]
                id == next_id(shifts)
            IN /\ shifts' = closed @@ (id :> TruckShift(truck_id))
               /\ response' = Response("checkin", id, None, 200)
    /\ emitted' = <<>>
    /\ notifications' = <<>>
    /\ UNCHANGED <<orders, order_items, truck_menu_items, inventory_adjustments,
                   loyalty_ledger, sessions>>

\* POST /api/mobile/shift/{shift_id}/pause
pause_shift(shift_id) ==
    /\ IF shift_id \notin DOMAIN shifts
       THEN /\ response' = Response("pause_shift", shift_id, None, 404)
            /\ emitted' = <<>>
            /\ UNCHANGED shifts
       ELSE IF shifts[shift_id].status = CHECKED_OUT
       THEN /\ response' = Response("pause_shift", shift_id, None, 400)
            /\ emitted' = <<>>
            /\ UNCHANGED shifts
       ELSE /\ shifts' = [shifts EXCEPT ![shift_id].status = PAUSED]
            /\ response' = Response("pause_shift", shift_id, None, 200)
            /\ emitted' = <<Event(shift_id, "pause")>>
    /\ notifications' = <<>>
    /\ UNCHANGED <<orders, order_items, truck_menu_items, inventory_adjustments,
                   loyalty_ledger, sessions>>

\* POST /api/mobile/shift/{shift_id}/resume
resume_shift(shift_id) ==
    /\ IF shift_id \notin DOMAIN shifts
       THEN /\ response' = Response("resume_shift", shift_id, None, 404)
            /\ emitted' = <<>>
            /\ UNCHANGED shifts
       ELSE IF shifts[shift_id].status = CHECKED_OUT
       THEN /\ response' = Response("resume_shift", shift_id, None, 400)
            /\ emitted' = <<>>
            /\ UNCHANGED shifts
       ELSE /\ shifts' = [shifts EXCEPT ![shift_id].status = CHECKED_IN]
            /\ response' = Response("resume_shift", shift_id, None, 200)
            /\ emitted' = <<Event(shift_id, "resume")>>
    /\ notifications' = <<>>
    /\ UNCHANGED <<orders, order_items, truck_menu_items, inventory_adjustments,
                   loyalty_ledger, sessions>>

\* ------------------------------------------------------- broadcast hub

\* self.clients.get(shift_id, set())
subscribers_mutant(cl, shift_id) == UNION {cl[k] : k \in DOMAIN cl}

subscribers(cl, shift_id) == IF shift_id \in DOMAIN cl THEN cl[shift_id] ELSE {}

\* Hub.join: self.clients.setdefault(shift_id, set()).add(ws)
join(cl, shift_id, ws) ==
    IF shift_id \in DOMAIN cl THEN [cl EXCEPT ![shift_id] = @ \cup {ws}]
    ELSE cl @@ (shift_id :> {ws})

\* Hub.leave: discard when the shift has a set.
leave(cl, shift_id, ws) ==
    IF shift_id \in DOMAIN cl THEN [cl EXCEPT ![shift_id] = @ \ {ws}] ELSE cl

discard_dead_mutant(cl, shift_id, dead) == cl

\* for ws in dead: self.clients[shift_id].discard(ws)
discard_dead(cl, shift_id, dead) ==
    IF dead = <<>> THEN cl
    ELSE [cl EXCEPT ![shift_id] = @ \ {dead[i] : i \in DOMAIN dead}]

\* ws.application_state: CONNECTED from the handshake on.
application_state(c) == IF c.link = "new" THEN "CONNECTING" ELSE "CONNECTED"

\* The orders in which list(set) may enumerate a set.
Orderings(S) ==
    {q \in [1..Cardinality(S) -> S] : \A i, j \in DOMAIN q : i # j => q[i] # q[j]}

\* ws_shift up to its read loop: hub.join accepts the socket and registers it.
ws_shift_join(ws) ==
    /\ connections[ws].link = "new"
    /\ connections' = [connections EXCEPT ![ws].link = "open"]
    /\ clients' = join(clients, connections[ws].shift_id, ws)
    /\ UNCHANGED <<store_vars, received, threads>>

\* The peer stops reading.
ws_stall(ws) ==
    /\ connections[ws].link = "open"
    /\ connections' = [connections EXCEPT ![ws].link = "stalled"]
    /\ UNCHANGED <<store_vars, clients, received, threads>>

\* The peer goes away without a close frame.
ws_break(ws) ==
    /\ connections[ws].link = "open"
    /\ connections' = [connections EXCEPT ![ws].link = "broken"]
    /\ UNCHANGED <<store_vars, clients, received, threads>>

\* The read loop ends with WebSocketDisconnect or with another Exception:
\* both handlers call hub.leave.
ws_shift_except(ws) ==
    /\ connections[ws].link \in {"open", "stalled", "broken"}
    /\ connections' = [connections EXCEPT ![ws].link = "closed"]
    /\ clients' = leave(clients, connections[ws].shift_id, ws)
    /\ UNCHANGED <<store_vars, received, threads>>

\* The coroutine is cancelled while it waits in receive_text: CancelledError
\* is not an Exception, so only the finally clause runs.
ws_shift_cancelled(ws) ==
    /\ connections[ws].link \in {"open", "stalled", "broken"}
    /\ connections' = [connections EXCEPT ![ws].link = "closed"]
    /\ UNCHANGED <<store_vars, clients, received, threads>>

get_running_loop_mutant(t) == TRUE

\* asyncio.get_running_loop() in a worker thread of the pool: there is none.
get_running_loop(t) == FALSE

\* A worker thread takes a request and runs its handler up to the call of
\* fire_and_forget: the handler's step, with the events it is about to
\* submit kept by the thread.
serve_create_customer_order(t, shiftId, items) ==
    /\ threads[t].pc = "idle"
    /\ create_customer_order(shiftId, items, None)
    /\ threads' = [threads EXCEPT ![t] = [Thread EXCEPT !.pc = "handler", !.events = emitted']]
    /\ UNCHANGED <<clients, connections, received>>

serve_payment_webhook(t, orderId, status) ==
    /\ threads[t].pc = "idle"
    /\ payment_webhook(orderId, status, "txn_1")
    /\ threads' = [threads EXCEPT ![t] = [Thread EXCEPT !.pc = "handler", !.events = emitted']]
    /\ UNCHANGED <<clients, connections, received>>

\* fire_and_forget(hub.emit(shift_id, event)) in thread t.  With a running
\* loop the coroutine becomes a task of that loop and the caller goes on;
\* without one asyncio.run(coro) runs it in the calling thread, which goes
\* on when it has returned.  The coroutine starts with the snapshot
\* list(self.clients.get(shift_id, set())).
fire_and_forget(t) ==
    /\ threads[t].pc = "handler"
    /\ ~threads[t].running
    /\ threads[t].events # <<>>
    /\ LET e == Head(threads[t].events)
           subs == subscribers(clients, e.shift_id)
       IN \E todo \in Orderings(subs) :
            threads' = [threads EXCEPT ![t] =
                          [@ EXCEPT !.pc = IF get_running_loop(t) THEN "handler" ELSE "emit",
                                    !.events = Tail(@), !.running = TRUE,
                                    !.shift_id = e.shift_id, !.event = e,
                                    !.snapshot = subs, !.todo = todo,
                                    !.sent = {}, !.dead = <<>>]]
    /\ UNCHANGED <<store_vars, clients, connections, received>>

\* One turn of the loop of Hub.emit: the next socket of the snapshot is sent
\* the event when its application_state is CONNECTED.  The send completes
\* on an open link, raises on a broken or closed one (the socket is put on
\* the dead list) and does not complete on a stalled one.
emit_send(t) ==
    /\ threads[t].running
    /\ threads[t].todo # <<>>
    /\ LET ws == Head(threads[t].todo)
           c == connections[ws]
       IN IF application_state(c) # "CONNECTED"
          THEN /\ threads' = [threads EXCEPT ![t].todo = Tail(@)]
               /\ UNCHANGED received
          ELSE /\ c.link # "stalled"
               /\ IF c.link = "open"
                  THEN /\ received' = [received EXCEPT ![ws] = Append(@, threads[t].event)]
                       /\ threads' = [threads EXCEPT ![t].todo = Tail(@),
                                                     ![t].sent = @ \cup {ws}]
                  ELSE /\ threads' = [threads EXCEPT ![t].todo = Tail(@),
                                                     ![t].dead = Append(@, ws)]
                       /\ UNCHANGED received
    /\ UNCHANGED <<store_vars, clients, connections>>

\* The end of Hub.emit: the dead sockets are discarded and the coroutine
\* returns to the thread that ran it.
emit_return(t) ==
    /\ threads[t].running
    /\ threads[t].todo = <<>>
    /\ clients' = discard_dead(clients, threads[t].shift_id, threads[t].dead)
    /\ threads' = [threads EXCEPT ![t] =
                      [Thread EXCEPT !.pc = IF threads[t].pc = "emit" THEN "handler"
                                            ELSE threads[t].pc,
                                     !.events = threads[t].events]]
    /\ UNCHANGED <<store_vars, connections, received>>

\* The handler returns and the response goes out.
respond(t) ==
    /\ threads[t].pc = "handler"
    /\ threads[t].events = <<>>
    /\ threads' = [threads EXCEPT ![t] = [Thread EXCEPT !.pc = "responded"]]
    /\ UNCHANGED <<store_vars, clients, connections, received>>

\* No display is connected and no request is split over a thread: hub.emit
\* finds no subscriber and returns at once.
no_displays ==
    /\ clients = <<>>
    /\ UNCHANGED <<clients, connections, received, threads>>

\* ------------------------------------------------------- specifications

OrderItemIn(tmi_id, qty) == [truckMenuItemId |-> tmi_id, qty |-> qty]

\* Submissions of the order lifecycle: none, one line, two lines, a line of
\* another shift's item.
LifecycleItems ==
    {<<>>, <<OrderItemIn(1, 1)>>, <<OrderItemIn(3, 1)>>,
     <<OrderItemIn(1, MaxQty), OrderItemIn(2, 1)>>}

LifecycleOrders == {1}

HoldReasons == {"Waiting"}
CancelReasons == {"Guest no-show"}
TransactionIds == {"txn_1", "txn_2"}
PaymentStatuses == {"paid", "PAID", "failed"}

\* The order lifecycle: one order is followed from its submission on; the
\* requests also address an order id that does not exist.
Next ==
    \/ \E shiftId \in ShiftIds \cup {3}, items \in LifecycleItems :
          /\ create_customer_order(shiftId, items, None)
          /\ DOMAIN orders' \subseteq LifecycleOrders
          /\ no_displays
    \/ \E orderId \in OrderIds, status \in PaymentStatuses, txn \in TransactionIds :
          payment_webhook(orderId, status, txn)
          /\ no_displays
    \/ \E shiftId \in ShiftIds : auto_reconcile(shiftId)
          /\ no_displays
    \/ \E order_id \in OrderIds, to \in AdvanceTargets : advance(order_id, to)
          /\ no_displays
    \/ \E order_id \in OrderIds, minutes \in 1..MaxMinutes, reason \in HoldReasons :
          hold_order(order_id, minutes, reason)
          /\ no_displays
    \/ \E order_id \in OrderIds : resume_order(order_id)
          /\ no_displays
    \/ \E order_id \in OrderIds, reason \in CancelReasons, refund \in BOOLEAN,
          refundReason \in {None, "Refund"} :
          cancel_order(order_id, reason, refund, refundReason)
          /\ no_displays
    \/ \E shift_id \in ShiftIds, orderIds \in SUBSET OrderIds :
          bulk_advance_ready(shift_id, orderIds)
          /\ no_displays

Spec == Init /\ [][Next]_vars

\* Stock and ledger: orders are submitted and paid while staff edit the
\* inventory and the special.  The ledger is cut at MaxAdjustments entries.
StockItems ==
    {<<OrderItemIn(1, 1)>>, <<OrderItemIn(1, MaxQty)>>, <<OrderItemIn(1, 1), OrderItemIn(2, MaxQty)>>}

StockUpdates ==
    {<<InventoryUpdate(<<1>>, Null, n, Null)>> : n \in {<<-1>>, <<MaxStock>>}} \cup
    {<<InventoryUpdate(Null, <<1>>, Null, <<FALSE>>)>>} \cup
    {<<InventoryUpdate(<<1>>, Null, <<1>>, Null), InventoryUpdate(<<9>>, Null, <<0>>, Null)>>}

SpecialUpdates ==
    {SpecialUpdate(TRUE, n, Null) : n \in {Null, <<MaxQty>>}} \cup
    {SpecialUpdate(FALSE, Null, <<TRUE>>)}

StockOrders == {1, 2}

NextStock ==
    \/ \E items \in StockItems :
          /\ create_customer_order(1, items, None)
          /\ DOMAIN orders' \subseteq StockOrders
          /\ no_displays
    \/ \E orderId \in StockOrders : payment_webhook(orderId, "paid", "txn_1")
          /\ no_displays
    \/ \E updates \in StockUpdates :
          /\ update_inventory(1, updates)
          /\ Len(inventory_adjustments') <= MaxAdjustments
          /\ no_displays
    \/ \E special_id \in {1, 2}, data \in SpecialUpdates :
          /\ update_special(1, special_id, data)
          /\ Len(inventory_adjustments') <= MaxAdjustments
          /\ no_displays

SpecStock == Init /\ [][NextStock]_vars

\* Requests side by side: payment callbacks while inventory edits are in
\* flight.  A payment callback writes its order row (the autoflush before
\* it selects the order's lines) before it reads any stock, so under the
\* store's single-writer lock it runs from there to its commit without
\* another writer in between: it is one step.
Requests == {1, 2}

ConcurrentUpdates ==
    {<<InventoryUpdate(<<1>>, Null, <<n>>, Null)>> : n \in {1, MaxStock}}

NextConc ==
    \/ \E q \in 1..MaxQty :
          /\ create_customer_order(1, <<OrderItemIn(1, q)>>, None)
          /\ DOMAIN orders' \subseteq StockOrders
          /\ no_displays
    \/ \E orderId \in StockOrders : payment_webhook(orderId, "paid", "txn_1")
          /\ no_displays
    \/ \E r \in Requests, updates \in ConcurrentUpdates :
          /\ update_inventory_begin(r, 1, updates)
          /\ Len(inventory_adjustments) + Cardinality(DOMAIN sessions) < MaxAdjustments
          /\ no_displays
    \/ \E r \in Requests : update_inventory_commit(r)
          /\ no_displays

SpecConc == Init /\ [][NextConc]_vars

\* The pickup counter: orders of both shifts are paid and cooked, and staff
\* hand over batches of them.
BulkItems == {<<1, <<OrderItemIn(1, 1)>>>>, <<2, <<OrderItemIn(3, 1)>>>>}
BulkTargets == {S_IN_PROGRESS, S_READY}

NextBulk ==
    \/ \E o \in BulkItems : create_customer_order(o[1], o[2], None)
          /\ no_displays
    \/ \E orderId \in OrderIds : payment_webhook(orderId, "paid", "txn_1")
          /\ no_displays
    \/ \E order_id \in OrderIds, to \in BulkTargets : advance(order_id, to)
          /\ no_displays
    \/ \E shift_id \in ShiftIds, orderIds \in SUBSET OrderIds :
          bulk_advance_ready(shift_id, orderIds)
          /\ no_displays
    \/ \E shiftId \in ShiftIds : auto_reconcile(shiftId)
          /\ no_displays

SpecBulk == Init /\ [][NextBulk]_vars

\* Payment callbacks of every status, for orders with and without a
\* customer phone, at every point of an order's life.  The loyalty ledger
\* is cut at MaxLoyalty entries.
PayItems == {<<1, <<OrderItemIn(1, 1)>>>>, <<2, <<OrderItemIn(3, MaxQty)>>>>}
Phones == {None, "5065550100"}

NextPay ==
    \/ \E o \in PayItems, phone \in Phones :
          create_customer_order(o[1], o[2], phone)
          /\ no_displays
    \/ \E orderId \in OrderIds, status \in PaymentStatuses :
          /\ payment_webhook(orderId, status, "txn_1")
          /\ Len(loyalty_ledger') <= MaxLoyalty
          /\ no_displays
    \/ \E order_id \in OrderIds : advance(order_id, S_IN_QUEUE)
          /\ no_displays
    \/ \E order_id \in OrderIds, refund \in BOOLEAN :
          cancel_order(order_id, "Guest no-show", refund, None)
          /\ no_displays

SpecPay == Init /\ [][NextPay]_vars

\* The notification dispatcher works or raises while payments are confirmed
\* and the inventory is edited.
NotifyItems == {<<OrderItemIn(1, 1)>>, <<OrderItemIn(1, MaxQty)>>}
NotifyUpdates ==
    {<<InventoryUpdate(<<1>>, Null, <<n>>, Null)>> : n \in {1, MaxStock}} \cup
    {<<InventoryUpdate(<<1>>, Null, <<0>>, Null), InventoryUpdate(<<2>>, Null, <<0>>, Null)>>}

NextNotify ==
    \/ \E items \in NotifyItems, phone \in Phones : create_customer_order(1, items, phone)
          /\ no_displays
    \/ \E orderId \in OrderIds, dispatch_fails \in BOOLEAN :
          /\ payment_webhook_notifying(orderId, "paid", "txn_1", dispatch_fails)
          /\ Len(loyalty_ledger') <= MaxLoyalty
          /\ no_displays
    \/ \E updates \in NotifyUpdates, dispatch_fails \in BOOLEAN :
          /\ update_inventory_notifying(1, updates, dispatch_fails)
          /\ Len(inventory_adjustments') <= MaxAdjustments
          /\ no_displays

SpecNotify == Init /\ [][NextNotify]_vars

\* The special of shift 1: customers order it and pay while staff edit and
\* delete specials.
SpecialItems == {<<OrderItemIn(2, 1)>>, <<OrderItemIn(1, 1), OrderItemIn(2, 1)>>, <<OrderItemIn(1, 1)>>}

NextSpecial ==
    \/ \E items \in SpecialItems :
          /\ create_customer_order(1, items, None)
          /\ DOMAIN orders' \subseteq OrderIds
          /\ no_displays
    \/ \E orderId \in OrderIds : payment_webhook(orderId, "paid", "txn_1")
          /\ Len(inventory_adjustments') <= MaxAdjustments
          /\ no_displays
    \/ \E special_id \in {1, 2}, data \in SpecialUpdates :
          /\ update_special(1, special_id, data)
          /\ Len(inventory_adjustments') <= MaxAdjustments
          /\ no_displays
    \/ \E shift_id \in ShiftIds, special_id \in {1, 2, 3} :
          /\ delete_special(shift_id, special_id)
          /\ no_displays

SpecSpecial == Init /\ [][NextSpecial]_vars

\* Order submission: customers submit well-formed and ill-formed orders
\* while staff set and clear the price of the special.  The menu of shift 1
\* has, besides the initial rows, a catalog item that is hidden
\* (visible = False).
SubmitMenu ==
    InitialItems @@
    (4 :> [TruckMenuItem(1, <<2>>, FALSE, Null, Null, 2) EXCEPT !.visible = FALSE])

InitSubmit ==
    /\ shifts = [s \in ShiftIds |-> TruckShift(s)]
    /\ orders = <<>>
    /\ order_items = <<>>
    /\ truck_menu_items = SubmitMenu
    /\ inventory_adjustments = <<>>
    /\ loyalty_ledger = <<>>
    /\ sessions = <<>>
    /\ response = Response("none", 0, None, 0)
    /\ emitted = <<>>
    /\ notifications = <<>>
    /\ clients = <<>>
    /\ connections = [ws \in Connections |-> Connection(ConnectionShift(ws))]
    /\ received = [ws \in Connections |-> <<>>]
    /\ threads = [t \in Threads |-> Thread]

SubmitItems ==
    {<<>>, <<OrderItemIn(1, 1)>>, <<OrderItemIn(2, MaxQty)>>, <<OrderItemIn(3, 1)>>,
     <<OrderItemIn(4, 1)>>, <<OrderItemIn(9, 1)>>,
     <<OrderItemIn(1, MaxQty), OrderItemIn(2, 1)>>, <<OrderItemIn(1, 1), OrderItemIn(4, 1)>>}

SubmitPrices == {SpecialPrice(Null), SpecialPrice(<<700>>)}

NextSubmit ==
    \/ \E shiftId \in ShiftIds \cup {3}, items \in SubmitItems :
          /\ create_customer_order(shiftId, items, None)
          /\ no_displays
    \/ \E data \in SubmitPrices :
          /\ update_special(1, 2, data)
          /\ no_displays

SpecSubmit == InitSubmit /\ [][NextSubmit]_vars

\* The shifts of two trucks: staff check in, pause, resume and check out,
\* one request at a time.  The shift table is cut at MaxShifts rows.
TruckIds == {1, 2}

NextCheckin ==
    \/ \E truck_id \in TruckIds \cup {0}, location_id \in Locations \cup {0, 9} :
          /\ checkin(truck_id, location_id)
          /\ Cardinality(DOMAIN shifts') <= MaxShifts
          /\ no_displays
    \/ \E shift_id \in 1..(MaxShifts + 1) : checkout(shift_id)
          /\ no_displays
    \/ \E shift_id \in 1..(MaxShifts + 1) : pause_shift(shift_id)
          /\ no_displays
    \/ \E shift_id \in 1..(MaxShifts + 1) : resume_shift(shift_id)
          /\ no_displays

SpecCheckin == Init /\ [][NextCheckin]_vars

\* Two shifts side by side: staff of either shift edit the inventory,
\* addressing items by row id and by catalog id, while customers of both
\* order and pay.
ScopeUpdates ==
    {<<InventoryUpdate(<<i>>, Null, <<n>>, Null)>> : i \in {1, 3}, n \in {0, MaxStock}} \cup
    {<<InventoryUpdate(Null, <<1>>, <<1>>, Null)>>}

ScopeItems == {<<1, <<OrderItemIn(1, 1)>>>>, <<2, <<OrderItemIn(3, MaxQty)>>>>}

NextScope ==
    \/ \E shift_id \in ShiftIds, updates \in ScopeUpdates :
          /\ update_inventory(shift_id, updates)
          /\ Len(inventory_adjustments') <= MaxAdjustments
          /\ no_displays
    \/ \E o \in ScopeItems :
          /\ create_customer_order(o[1], o[2], None)
          /\ no_displays
    \/ \E orderId \in OrderIds :
          /\ payment_webhook(orderId, "paid", "txn_1")
          /\ Len(inventory_adjustments') <= MaxAdjustments
          /\ no_displays

SpecScope == Init /\ [][NextScope]_vars

\* The end of a shift: customers look at the menu and order while staff
\* check the shifts out.
ShiftItems == {<<1, <<OrderItemIn(1, 1)>>>>, <<2, <<OrderItemIn(3, 1)>>>>, <<1, <<OrderItemIn(3, 1)>>>>}

NextShift ==
    \/ \E shift_id \in ShiftIds \cup {3} : checkout(shift_id)
          /\ no_displays
    \/ \E shift_id \in ShiftIds \cup {3} : customer_menu(shift_id)
          /\ no_displays
    \/ \E o \in ShiftItems : create_customer_order(o[1], o[2], None)
          /\ no_displays
    \/ \E orderId \in OrderIds : payment_webhook(orderId, "paid", "txn_1")
          /\ no_displays

SpecShift == Init /\ [][NextShift]_vars

\* The kitchen displays: displays connect, stall, break and go away while
\* one worker thread serves an order submission and the other a payment
\* callback, whose events go out through the hub.
HubItems == {<<1, <<OrderItemIn(1, 1)>>>>, <<2, <<OrderItemIn(3, 1)>>>>}

NextHub ==
    \/ \E ws \in Connections : ws_shift_join(ws)
    \/ \E ws \in Connections : ws_stall(ws)
    \/ \E ws \in Connections : ws_break(ws)
    \/ \E ws \in Connections : ws_shift_except(ws)
    \/ \E ws \in Connections : ws_shift_cancelled(ws)
    \/ \E o \in HubItems : serve_create_customer_order(1, o[1], o[2])
    \/ serve_payment_webhook(2, 1, "paid")
    \/ \E t \in Threads : fire_and_forget(t)
    \/ \E t \in Threads : emit_send(t)
    \/ \E t \in Threads : emit_return(t)
    \/ \E t \in Threads : respond(t)

SpecHub == Init /\ [][NextHub]_vars

\* The same with the scheduling the runtime gives: a worker thread that can
\* take its next step takes it, and a send that can complete completes.
\* Nothing obliges a display to connect, stall, break or go away, nor a
\* request to arrive.
SpecHubFair ==
    /\ SpecHub
    /\ \A t \in Threads : /\ WF_vars(fire_and_forget(t))
                          /\ WF_vars(emit_send(t))
                          /\ WF_vars(emit_return(t))
                          /\ WF_vars(respond(t))

\* ------------------------------------------------- order state machine: properties

Terminal == {S_PICKED_UP, S_CANCELED, S_REFUNDED}

\* The transition table as the design states it.
TransitionTable(s) ==
    IF s = S_PAID THEN {S_IN_QUEUE, S_IN_PROGRESS}
    ELSE IF s = S_IN_QUEUE THEN {S_IN_PROGRESS, S_ON_HOLD}
    ELSE IF s = S_IN_PROGRESS THEN {S_READY, S_ON_HOLD}
    ELSE IF s = S_ON_HOLD THEN {S_IN_PROGRESS, S_IN_QUEUE}
    ELSE IF s = S_READY THEN {S_PICKED_UP}
    ELSE {}

\* C1: an advance of an existing order to target `to` answers 200 and puts
\* the order in `to` iff `to` is in the transition-table row of the order's
\* pre-call state; otherwise it answers 400 and the orders are unchanged.
C1_AdvanceIffInTable ==
    [][(response'.op = "advance" /\ response'.id \in DOMAIN orders) =>
         LET id == response'.id
             to == response'.arg
         IN /\ response'.status \in {200, 400}
            /\ (response'.status = 200) <=> (to \in TransitionTable(orders[id].state))
            /\ (response'.status = 200) => orders'[id].state = to
            /\ (response'.status = 400) => orders' = orders]_vars

\* C1 witness: the advance PAID -> ON_HOLD has been refused.
C1_Witness ==
    /\ response = Response("advance", 1, S_ON_HOLD, 400)
    /\ orders[1].state = S_PAID

\* C2: once an order is PICKED_UP, CANCELED or REFUNDED no step changes its
\* state.
C2_TerminalIsFinal ==
    [][\A id \in DOMAIN orders :
          orders[id].state \in Terminal => orders'[id].state = orders[id].state]_vars

\* C2 witness: a payment callback has been received for a canceled order.
C2_Witness ==
    /\ response = Response("payment_webhook", 1, S_CANCELED, 200)
    /\ orders[1].state = S_CANCELED

\* C7, as claimed: an order that is not ON_HOLD has previous_state null.
C7_PreviousOnlyOnHold ==
    \A id \in DOMAIN orders :
        orders[id].state # S_ON_HOLD => orders[id].previous_state = None

\* C7, amended: previous_state is null while the order is NEW or PAID and
\* right after a resume, and is non-null whenever the order is ON_HOLD.
C7_PreviousStateAmended ==
    \A id \in DOMAIN orders :
        /\ orders[id].state \in {S_NEW, S_PAID} => orders[id].previous_state = None
        /\ orders[id].state = S_ON_HOLD => orders[id].previous_state # None
        /\ (response = Response("resume", id, None, 200)) => orders[id].previous_state = None

\* C7 witness: an order has been resumed.
C7_Witness ==
    /\ response = Response("resume", 1, None, 200)
    /\ orders[1].state = S_IN_PROGRESS

\* C8: a cancel of an existing order that is not PICKED_UP, CANCELED or
\* REFUNDED answers 200 and leaves it REFUNDED when refund is set and
\* CANCELED otherwise; on a closed order it answers 400 and changes nothing.
C8_CancelFromNonTerminal ==
    [][(response'.op = "cancel" /\ response'.id \in DOMAIN orders) =>
         LET id == response'.id IN
         IF orders[id].state \in Terminal
         THEN response'.status = 400 /\ orders' = orders
         ELSE /\ response'.status = 200
              /\ orders'[id].state =
                    IF response'.arg = "refund" THEN S_REFUNDED ELSE S_CANCELED]_vars

\* C8 witness: a READY order has been canceled with a refund.
C8_Witness ==
    /\ response = Response("cancel", 1, "refund", 200)
    /\ orders[1].state = S_REFUNDED
    /\ orders[1].previous_state = S_READY

\* C9: a hold of an existing order in IN_QUEUE or IN_PROGRESS answers 200,
\* records the pre-call state in previous_state and sets ON_HOLD,
\* on_hold_until and hold_reason; in any other state it answers 400 and
\* changes nothing.
C9_HoldOnlyWhenActive ==
    [][(response'.op = "hold" /\ response'.id \in DOMAIN orders) =>
         LET id == response'.id IN
         IF orders[id].state \in {S_IN_QUEUE, S_IN_PROGRESS}
         THEN /\ response'.status = 200
              /\ orders'[id].state = S_ON_HOLD
              /\ orders'[id].previous_state = orders[id].state
              /\ orders'[id].on_hold_until # Null
              /\ orders'[id].hold_reason = response'.arg
         ELSE response'.status = 400 /\ orders' = orders]_vars

\* C9 witness: an IN_PROGRESS order has been put on hold.
C9_Witness ==
    /\ response = Response("hold", 1, "Waiting", 200)
    /\ orders[1].state = S_ON_HOLD
    /\ orders[1].previous_state = S_IN_PROGRESS

\* C10: while an order is ON_HOLD its previous_state is the state it had
\* when it entered ON_HOLD; a resume of an ON_HOLD order answers 200,
\* restores that state (IN_QUEUE when none is recorded) and clears
\* on_hold_until and hold_reason; in any other state it answers 400 and
\* changes nothing.
C10_ResumeRestoresPreHold ==
    [][\A id \in DOMAIN orders :
          /\ (orders[id].state # S_ON_HOLD /\ orders'[id].state = S_ON_HOLD)
                => orders'[id].previous_state = orders[id].state
          /\ (orders[id].state = S_ON_HOLD /\ orders'[id].state = S_ON_HOLD)
                => orders'[id].previous_state = orders[id].previous_state
          /\ (response'.op = "resume" /\ response'.id = id) =>
                IF orders[id].state = S_ON_HOLD
                THEN /\ response'.status = 200
                     /\ orders'[id].state =
                           IF orders[id].previous_state = None THEN S_IN_QUEUE
                           ELSE orders[id].previous_state
                     /\ orders'[id].on_hold_until = Null
                     /\ orders'[id].hold_reason = None
                ELSE response'.status = 400 /\ orders' = orders]_vars

\* C10 witness: an order held while IN_PROGRESS has been resumed to
\* IN_PROGRESS.
C10_Witness ==
    /\ response = Response("resume", 1, None, 200)
    /\ orders[1].state = S_IN_PROGRESS
    /\ orders[1].on_hold_until = Null

\* C11: a bulk advance with a non-empty list answers 200; it moves to
\* PICKED_UP exactly the listed orders of the shift that are READY, leaves
\* every other order row as it was, and returns the number of orders moved.
C11_BulkMovesExactlyReady ==
    [][\A shift_id \in ShiftIds, orderIds \in (SUBSET OrderIds) \ {{}} :
          bulk_advance_ready(shift_id, orderIds) =>
             LET moved == {id \in DOMAIN orders : orders'[id] # orders[id]} IN
             /\ DOMAIN orders' = DOMAIN orders
             /\ \A id \in DOMAIN orders :
                   IF id \in orderIds /\ orders[id].shift_id = shift_id
                                      /\ orders[id].state = S_READY
                   THEN orders'[id].state = S_PICKED_UP
                   ELSE orders'[id] = orders[id]
             /\ response'.status = 200
             /\ response'.arg = ToString(Cardinality(moved))]_vars

\* C11 witness: of two listed orders the READY one of the shift has been
\* picked up and the other, READY on another shift, has been left alone.
C11_Witness ==
    /\ response = Response("bulk_advance", 1, "1", 200)
    /\ DOMAIN orders = {1, 2}
    /\ \E a, b \in DOMAIN orders :
          /\ orders[a].shift_id = 1 /\ orders[a].state = S_PICKED_UP
          /\ orders[b].shift_id = 2 /\ orders[b].state = S_READY

\* C21: a reconcile of a shift answers 200; it moves to IN_QUEUE and stamps
\* auto_reconciled_at on exactly the orders of the shift that are PAID,
\* leaves every other order row as it was, and returns the number of orders
\* moved.
C21_ReconcileMovesExactlyPaid ==
    [][\A shiftId \in ShiftIds :
          auto_reconcile(shiftId) =>
             LET moved == {id \in DOMAIN orders : orders'[id] # orders[id]} IN
             /\ DOMAIN orders' = DOMAIN orders
             /\ \A id \in DOMAIN orders :
                   IF orders[id].shift_id = shiftId /\ orders[id].state = S_PAID
                   THEN orders'[id] = [orders[id] EXCEPT !.state = S_IN_QUEUE,
                                                         !.auto_reconciled_at = TRUE]
                   ELSE orders'[id] = orders[id]
             /\ response'.status = 200
             /\ response'.arg = ToString(Cardinality(moved))]_vars

\* C21 witness: the PAID order of shift 1 has been reconciled while the
\* PAID order of shift 2 has been left alone.
C21_Witness ==
    /\ response = Response("reconcile", 1, "1", 200)
    /\ DOMAIN orders = {1, 2}
    /\ \E a, b \in DOMAIN orders :
          /\ orders[a].shift_id = 1 /\ orders[a].state = S_IN_QUEUE
          /\ orders[a].auto_reconciled_at
          /\ orders[b].shift_id = 2 /\ orders[b].state = S_PAID
          /\ ~orders[b].auto_reconciled_at

\* C22: while a shift is CHECKED_OUT no step adds an order or a truck menu
\* item of that shift.
C22_ClosedShiftGetsNothingNew ==
    [][\A s \in DOMAIN shifts :
          shifts[s].status = CHECKED_OUT =>
             /\ {id \in DOMAIN orders' : orders'[id].shift_id = s}
                   = {id \in DOMAIN orders : orders[id].shift_id = s}
             /\ {i \in DOMAIN truck_menu_items' : truck_menu_items'[i].shift_id = s}
                   = {i \in DOMAIN truck_menu_items : truck_menu_items[i].shift_id = s}]_vars

\* ------------------------------------------------ stock and ledger: properties

\* The ledger entries of one item with one reason.
EntriesFor(tmi_id, reason) ==
    SelectSeq(inventory_adjustments,
              LAMBDA a : a.truck_menu_item_id = tmi_id /\ a.reason = reason)

\* The lines on one item of the orders whose payment has been confirmed.
PaidLines(tmi_id) ==
    UNION {{<<id, k>> : k \in {n \in DOMAIN order_items[id] :
                                  order_items[id][n].truck_menu_item_id = tmi_id}} :
           id \in {o \in DOMAIN orders : orders[o].state # S_NEW}}

\* C3: however often payments are confirmed, the ledger holds at most one
\* payment entry per line of a paid order (a second "paid" callback for the
\* same order reserves nothing again).
C3_OneEntryPerPaidLine ==
    \A i \in DOMAIN truck_menu_items :
        Len(EntriesFor(i, "payment_notification")) <= Cardinality(PaidLines(i))

\* Whether the lines, taken in order, ask of some stocked item more than
\* `tmis` holds of it.
SomeLineFails(lines, tmis) ==
    \E k \in 1..Len(lines) :
        LET i == lines[k].truck_menu_item_id
            before == {j \in 1..(k - 1) : lines[j].truck_menu_item_id = i}
            RECURSIVE Taken(_)
            Taken(js) == IF js = {} THEN 0
                         ELSE LET j == CHOOSE x \in js : TRUE
                              IN lines[j].qty + Taken(js \ {j})
        IN /\ tmis[i].stock_count # Null
           /\ tmis[i].stock_count[1] - Taken(before) < lines[k].qty

\* C4: a "paid" confirmation of a NEW or PAID order one of whose lines asks
\* for more than the stock answers 409, and a confirmation that answers 409
\* leaves orders, items and ledger exactly as they were.
C4_ConfirmationAllOrNothing ==
    [][(response'.op = "payment_webhook" /\ response'.id \in DOMAIN orders) =>
         LET id == response'.id IN
         /\ (/\ response'.arg = "paid"
             /\ orders[id].state \in {S_NEW, S_PAID}
             /\ SomeLineFails(order_items[id], truck_menu_items))
               => response'.status = 409
         /\ response'.status = 409 =>
               /\ orders' = orders
               /\ truck_menu_items' = truck_menu_items
               /\ inventory_adjustments' = inventory_adjustments]_vars

\* C4 witness: the confirmation of a two-line order has been refused at its
\* second line, the first line's item being in stock.
C4_Witness ==
    /\ response = Response("payment_webhook", 1, "paid", 409)
    /\ Len(order_items[1]) = 2
    /\ truck_menu_items[order_items[1][1].truck_menu_item_id].stock_count[1]
          >= order_items[1][1].qty
    /\ orders[1].state = S_NEW

\* C5: every item's stock count, when present, is not negative, and the
\* count (None read as 0, as the handlers read it) is the item's initial
\* count plus the sum of its ledger deltas.
C5_StockMatchesLedger ==
    \A i \in DOMAIN truck_menu_items :
        /\ truck_menu_items[i].stock_count # Null => truck_menu_items[i].stock_count[1] >= 0
        /\ OrZero(truck_menu_items[i].stock_count) =
              OrZero(InitialItems[i].stock_count)
                + SumDeltas(AdjustmentsOf(inventory_adjustments, i))

\* C5 witness: an item has been reserved by a payment and restocked by hand.
C5_Witness ==
    /\ Len(EntriesFor(1, "payment_notification")) >= 1
    /\ Len(EntriesFor(1, "manual_adjustment")) >= 1
    /\ Len(EntriesFor(2, "special_update")) >= 1

\* The low_stock events among the events of a request, and the low-stock
\* calls among its notification calls.
LowStockEvents == SelectSeq(emitted, LAMBDA e : e.event = "low_stock")
LowStockCalls == SelectSeq(notifications, LAMBDA n : n.notify = "low_stock")

\* C12: an inventory request with one update that sets the item's count to
\* a value at or below its threshold submits exactly one low_stock event
\* and makes exactly one low-stock notification call; one that sets the
\* count above the threshold of an item that was at or below it submits
\* and calls none.
C12_LowStockOnSetting ==
    [][\A updates \in StockUpdates :
          (/\ update_inventory(1, updates)
           /\ Len(updates) = 1
           /\ updates[1].stockCount # Null
           /\ response'.status = 204) =>
             LET id == find_tmi(updates[1], truck_menu_items, 1)[1]
                 old == truck_menu_items[id]
                 new == Max(0, updates[1].stockCount[1])
             IN /\ new <= old.low_stock_threshold =>
                      Len(LowStockEvents') = 1 /\ Len(LowStockCalls') = 1
                /\ (/\ new > old.low_stock_threshold
                    /\ old.stock_count # Null
                    /\ old.stock_count[1] <= old.low_stock_threshold) =>
                      Len(LowStockEvents') = 0 /\ Len(LowStockCalls') = 0]_vars

\* C13: a request that takes an item from not low-stock to low-stock
\* submits a low_stock event and makes a low-stock notification call,
\* whichever operation it is (payment confirmation, inventory update,
\* update of a special).
C13_LowStockReevaluated ==
    [][\A i \in DOMAIN truck_menu_items :
          (~is_low_stock(truck_menu_items[i]) /\ is_low_stock(truck_menu_items'[i])) =>
             Len(LowStockEvents') >= 1 /\ Len(LowStockCalls') >= 1]_vars

\* C14: an item whose stock count is present and zero is flagged
\* out_of_stock.
C14_ZeroStockIsOutOfStock ==
    \A i \in DOMAIN truck_menu_items :
        truck_menu_items[i].stock_count = <<0>> => truck_menu_items[i].out_of_stock

\* C23: a payment confirmation or an inventory update during which the
\* notification dispatcher raises ends as it does when the dispatcher
\* works: the same response and the same state change, stock and ledger
\* entries, loyalty award and submitted events.
C23_DispatchFailureNonFatal ==
    [][/\ \A orderId \in OrderIds :
            payment_webhook_notifying(orderId, "paid", "txn_1", TRUE)
               => payment_webhook(orderId, "paid", "txn_1")
       /\ \A updates \in NotifyUpdates :
            update_inventory_notifying(1, updates, TRUE) => update_inventory(1, updates)]_vars

\* C25: the loyalty ledger holds at most one entry for an order, however
\* often its payment is confirmed; an entry carries
\* max(1, total_cents // 1000) points, the phone of the order and the
\* points stamped on the order; an order with no phone or a non-positive
\* total has no entry.
LoyaltyEntries(orderId) ==
    {i \in 1..Len(loyalty_ledger) : loyalty_ledger[i].order_id = orderId}

C25_LoyaltyOncePerOrder ==
    \A orderId \in DOMAIN orders :
        /\ Cardinality(LoyaltyEntries(orderId)) <= 1
        /\ \A i \in LoyaltyEntries(orderId) :
              /\ orders[orderId].customer_phone # None
              /\ orders[orderId].total_cents > 0
              /\ loyalty_ledger[i].customer_phone = orders[orderId].customer_phone
              /\ loyalty_ledger[i].points = Max(1, orders[orderId].total_cents \div 1000)
              /\ loyalty_ledger[i].points = orders[orderId].loyalty_points_awarded
        /\ (orders[orderId].customer_phone = None \/ orders[orderId].total_cents <= 0)
              => LoyaltyEntries(orderId) = {}

\* C26: in every reachable state the state of every order is one of the
\* nine values of OrderState, and so is a previous_state that is set (the
\* value a resume restores).
C26_StateEnumerated ==
    \A id \in DOMAIN orders :
        /\ orders[id].state \in OrderState
        /\ orders[id].previous_state \in OrderState \cup {None}

\* C26 witness: an advance to a target that is no order state has been
\* refused on an order that can be advanced.
C26_Witness ==
    /\ response = Response("advance", 1, "BOGUS", 400)
    /\ 1 \in DOMAIN orders
    /\ ALLOWED_ADVANCES(orders[1].state) # {}

\* C29: an advance that answers 200 sets previous_state to the state before
\* the call and state to the target, stamps prep_completed_at exactly when
\* the target is READY, clears on_hold_until and hold_reason when the
\* target is not ON_HOLD and leaves them as they were when it is.
C29_AdvanceEffects ==
    [][\A order_id \in OrderIds, to \in AdvanceTargets :
         (advance(order_id, to) /\ response'.status = 200) =>
            LET before == orders[order_id]
                after == orders'[order_id]
            IN /\ after.previous_state = before.state
               /\ after.state = to
               /\ after.prep_completed_at = (to = S_READY \/ before.prep_completed_at)
               /\ to # S_ON_HOLD => after.on_hold_until = Null /\ after.hold_reason = None
               /\ to = S_ON_HOLD => /\ after.on_hold_until = before.on_hold_until
                                    /\ after.hold_reason = before.hold_reason]_vars

\* C29 witness: an order put on hold with a reason has been advanced out of
\* the hold, and its hold fields are cleared.
C29_Witness ==
    /\ response = Response("advance", 1, S_IN_PROGRESS, 200)
    /\ 1 \in DOMAIN orders
    /\ orders[1].previous_state = S_ON_HOLD
    /\ orders[1].state = S_IN_PROGRESS
    /\ orders[1].hold_reason = None

\* The lines of an order whose item keeps a stock count.
StockedLines(id) ==
    SelectSeq(order_items[id],
              LAMBDA l : /\ l.truck_menu_item_id \in DOMAIN truck_menu_items
                         /\ truck_menu_items[l.truck_menu_item_id].stock_count # Null)

\* C27: the confirmation of a NEW or PAID order whose lines address
\* different items reserves each line's qty on its item.  It fails with 409
\* exactly when some line's qty exceeds the stock of its item, and then
\* every stock count is as before; otherwise each stocked line's item
\* loses exactly qty and the ledger grows by one entry per stocked line,
\* with delta -qty.
C27_ReserveWithinStock ==
    [][\A id \in DOMAIN orders :
         (/\ payment_webhook(id, "paid", "txn_1")
          /\ orders[id].state \in {S_NEW, S_PAID}
          /\ \A j, k \in DOMAIN order_items[id] :
                j # k => order_items[id][j].truck_menu_item_id
                            # order_items[id][k].truck_menu_item_id) =>
            LET lines == StockedLines(id)
                exceeds == \E k \in DOMAIN lines :
                              lines[k].qty >
                                truck_menu_items[lines[k].truck_menu_item_id].stock_count[1]
            IN /\ (response'.status = 409) = exceeds
               /\ exceeds => \A i \in DOMAIN truck_menu_items :
                                truck_menu_items'[i].stock_count = truck_menu_items[i].stock_count
               /\ ~exceeds =>
                    /\ \A k \in DOMAIN lines :
                          LET i == lines[k].truck_menu_item_id IN
                          truck_menu_items'[i].stock_count =
                             <<truck_menu_items[i].stock_count[1] - lines[k].qty>>
                    /\ inventory_adjustments' =
                          inventory_adjustments \o
                            [k \in DOMAIN lines |->
                               InventoryAdjustment(orders[id].shift_id,
                                                   lines[k].truck_menu_item_id,
                                                   -lines[k].qty, "payment_notification")]]_vars

\* C27 witness: a reservation of exactly the remaining stock has gone
\* through and the item is at 0.
C27_Witness ==
    /\ response = Response("payment_webhook", 2, "paid", 200)
    /\ truck_menu_items[1].stock_count = <<0>>
    /\ inventory_adjustments # <<>>
    /\ inventory_adjustments[Len(inventory_adjustments)] =
          InventoryAdjustment(1, 1, -MaxQty, "payment_notification")

C28_ReferencedItemKept ==
    \A id \in DOMAIN orders :
        \A k \in DOMAIN order_items[id] :
            order_items[id][k].truck_menu_item_id \in DOMAIN truck_menu_items

\* What a staff request on an order leaves behind, for C31: answered 200,
\* the store holds the order in a new state and the request has submitted
\* exactly one event, of the given name, for the order's own shift;
\* answered otherwise, the orders are as before and nothing is submitted.
EmitsOnce(order_id, name) ==
    IF response'.status = 200
    THEN /\ orders'[order_id].state # orders[order_id].state
         /\ Len(emitted') = 1
         /\ emitted'[1].event = name
         /\ emitted'[1].shift_id = orders'[order_id].shift_id
    ELSE /\ orders' = orders
         /\ emitted' = <<>>

C32_EmissionOrderKept ==
    [][/\ \A t \in Threads : threads'[t].running => threads'[t].pc = "emit"
       /\ \A t \in Threads :
            emit_return(t) =>
               \A ws \in threads[t].snapshot :
                  (threads[t].shift_id \in DOMAIN clients'
                     /\ ws \in clients'[threads[t].shift_id]) =>
                     /\ ws \in threads[t].sent
                     /\ \E i \in DOMAIN received[ws] : received[ws][i] = threads[t].event
       /\ \A ws \in Connections :
            received'[ws] # received[ws] =>
               \E t \in Threads :
                  /\ threads[t].running
                  /\ ws \in threads[t].snapshot \ threads[t].sent
                  /\ received'[ws] = Append(received[ws], threads[t].event)]_vars

\* C32 witness: a display has received the event of an order's submission
\* and then the event of its payment, and no emission is running.
C32_Witness ==
    /\ \A t \in Threads : ~threads[t].running
    /\ \E ws \in Connections :
          /\ connections[ws].link = "open"
          /\ Len(received[ws]) >= 2
          /\ received[ws][1].event = "new_customer_order"
          /\ received[ws][2].event = "payment_received"

\* Whether a submission fails validation: an unknown shift, no lines, or a
\* line whose item is unknown, belongs to another shift, is hidden or has
\* neither a price of its own nor a catalog item to take one from.
FailsValidation(shiftId, items) ==
    \/ shiftId \notin DOMAIN shifts
    \/ items = <<>>
    \/ \E k \in DOMAIN items :
          \/ items[k].truckMenuItemId \notin DOMAIN truck_menu_items
          \/ LET tmi == truck_menu_items[items[k].truckMenuItemId] IN
             \/ tmi.shift_id # shiftId
             \/ ~tmi.visible
             \/ tmi.price_override_cents = Null /\ tmi.menu_item_id = Null

\* C33: a submission that fails validation is answered 400 or 404 and
\* leaves the orders and the order lines as they were; any other
\* submission adds exactly one order, in state NEW on the requested shift,
\* with one line per submitted line, of the same item and qty.
C33_SubmissionValidated ==
    [][\A shiftId \in ShiftIds \cup {3}, items \in SubmitItems :
         create_customer_order(shiftId, items, None) =>
            IF FailsValidation(shiftId, items)
            THEN /\ response'.status \in {400, 404}
                 /\ orders' = orders
                 /\ order_items' = order_items
            ELSE /\ response'.status = 200
                 /\ \E id \in DOMAIN orders' \ DOMAIN orders :
                       /\ DOMAIN orders' = DOMAIN orders \cup {id}
                       /\ DOMAIN order_items' = DOMAIN order_items \cup {id}
                       /\ \A o \in DOMAIN orders :
                             orders'[o] = orders[o] /\ order_items'[o] = order_items[o]
                       /\ orders'[id].state = S_NEW
                       /\ orders'[id].shift_id = shiftId
                       /\ Len(order_items'[id]) = Len(items)
                       /\ \A k \in DOMAIN items :
                             /\ order_items'[id][k].truck_menu_item_id = items[k].truckMenuItemId
                             /\ order_items'[id][k].qty = items[k].qty]_vars

\* C33 witness: a two-line submission has been accepted after the special
\* of its second line got its price back.
C33_Witness ==
    /\ response = Response("create_order", 2, None, 200)
    /\ orders[2].state = S_NEW
    /\ Len(order_items[2]) = 2
    /\ order_items[2][2].price_cents = 700

\* C34: an order that is ON_HOLD has previous_state IN_QUEUE or
\* IN_PROGRESS, however the hold was entered, and a resume that answers 200
\* leaves the order IN_QUEUE or IN_PROGRESS.
C34_HoldComesFromActive ==
    [][\A id \in DOMAIN orders' :
          /\ orders'[id].state = S_ON_HOLD
                => orders'[id].previous_state \in {S_IN_QUEUE, S_IN_PROGRESS}
          /\ (resume_order(id) /\ response'.status = 200)
                => orders'[id].state \in {S_IN_QUEUE, S_IN_PROGRESS}]_vars

\* C34 witness: an order has entered the hold through advance from
\* IN_QUEUE (no hold reason is recorded), with IN_QUEUE to resume to.
C34_Witness ==
    /\ response = Response("advance", 1, S_ON_HOLD, 200)
    /\ orders[1].state = S_ON_HOLD
    /\ orders[1].previous_state = S_IN_QUEUE
    /\ orders[1].hold_reason = None

\* The states of an order in the kitchen or handed over.
Kitchen == {S_IN_QUEUE, S_IN_PROGRESS, S_ON_HOLD, S_READY, S_PICKED_UP}

\* C35: a submitted order starts NEW; an order leaves NEW only for PAID,
\* by a payment callback, or for CANCELED or REFUNDED, by a cancel; and an
\* order enters the kitchen states {IN_QUEUE, IN_PROGRESS, ON_HOLD, READY,
\* PICKED_UP} only from PAID.  So no order is in a kitchen state without
\* having been PAID before.
C35_KitchenOnlyAfterPaid ==
    [][\A id \in DOMAIN orders' :
          IF id \notin DOMAIN orders
          THEN orders'[id].state = S_NEW
          ELSE /\ (orders[id].state = S_NEW /\ orders'[id].state # S_NEW) =>
                    \/ orders'[id].state = S_PAID /\ response'.op = "payment_webhook"
                    \/ orders'[id].state \in {S_CANCELED, S_REFUNDED} /\ response'.op = "cancel"
               /\ (orders[id].state \notin Kitchen /\ orders'[id].state \in Kitchen) =>
                    orders[id].state = S_PAID]_vars

\* C35 witness: a paid order has gone through the kitchen to READY.
C35_Witness ==
    /\ response = Response("advance", 1, S_READY, 200)
    /\ orders[1].state = S_READY
    /\ orders[1].payment_reference # None

\* C36: advance, hold, resume, cancel (with or without refund), bulk
\* advance and auto reconcile leave every item row (its stock_count and
\* out_of_stock among the rest) and the inventory ledger as they were: a
\* cancel or refund of a paid order gives no stock back.
C36_KitchenLeavesStockAlone ==
    [][(\/ \E order_id \in OrderIds, to \in AdvanceTargets : advance(order_id, to)
        \/ \E order_id \in OrderIds, minutes \in 1..MaxMinutes, reason \in HoldReasons :
              hold_order(order_id, minutes, reason)
        \/ \E order_id \in OrderIds : resume_order(order_id)
        \/ \E order_id \in OrderIds, reason \in CancelReasons, refund \in BOOLEAN,
              refundReason \in {None, "Refund"} :
              cancel_order(order_id, reason, refund, refundReason)
        \/ \E shift_id \in ShiftIds, orderIds \in SUBSET OrderIds :
              bulk_advance_ready(shift_id, orderIds)
        \/ \E shiftId \in ShiftIds : auto_reconcile(shiftId))
          => /\ \A i \in DOMAIN truck_menu_items :
                  /\ truck_menu_items'[i].stock_count = truck_menu_items[i].stock_count
                  /\ truck_menu_items'[i].out_of_stock = truck_menu_items[i].out_of_stock
             /\ DOMAIN truck_menu_items' = DOMAIN truck_menu_items
             /\ inventory_adjustments' = inventory_adjustments]_vars

\* C36 witness: a paid order whose line took stock has been refunded, and
\* the item is still short of what the order took.
C36_Witness ==
    /\ response = Response("cancel", 1, "refund", 200)
    /\ orders[1].state = S_REFUNDED
    /\ orders[1].payment_reference # None
    /\ truck_menu_items[1].stock_count[1] < MaxStock
    /\ \A k \in DOMAIN inventory_adjustments :
          inventory_adjustments[k].reason = "payment_notification"

\* C37: each truck has at most one shift that is not CHECKED_OUT, a shift
\* that is CHECKED_OUT stays CHECKED_OUT, and a pause or resume of a
\* CHECKED_OUT shift is answered 400.
C37_OneOpenShiftPerTruck ==
    [][/\ \A truck_id \in TruckIds :
            Cardinality({s \in DOMAIN shifts' : /\ shifts'[s].truck_id = truck_id
                                                /\ shifts'[s].status # CHECKED_OUT}) <= 1
       /\ \A s \in DOMAIN shifts :
            shifts[s].status = CHECKED_OUT =>
               /\ s \in DOMAIN shifts'
               /\ shifts'[s].status = CHECKED_OUT
               /\ (pause_shift(s) \/ resume_shift(s)) => response'.status = 400]_vars

\* C37 witness: truck 1 has checked in again: its first shift is checked
\* out and the new one is its open shift, while the shift of truck 2 is
\* paused.
C37_Witness ==
    /\ response = Response("checkin", 3, None, 200)
    /\ shifts[1].status = CHECKED_OUT
    /\ shifts[2].status = PAUSED
    /\ shifts[3] = TruckShift(1)

\* C38: an inventory request one of whose updates addresses an item that
\* cannot be found is answered 404 and leaves every item row and the
\* ledger as they were, the updates before the missing one included, and
\* submits no event and makes no notification call.
C38_BatchAllOrNothing ==
    [][\A updates \in StockUpdates :
         (/\ update_inventory(1, updates)
          /\ \E k \in DOMAIN updates : find_tmi(updates[k], truck_menu_items, 1) = Null) =>
            /\ response'.status = 404
            /\ truck_menu_items' = truck_menu_items
            /\ inventory_adjustments' = inventory_adjustments
            /\ emitted' = <<>>
            /\ notifications' = <<>>]_vars

\* C38 witness: a batch whose first update would have changed the count of
\* item 1 has been refused at its second update, with count and ledger as
\* they were.
C38_Witness ==
    /\ response = Response("update_inventory", 1, None, 404)
    /\ truck_menu_items[1].stock_count = <<MaxStock>>
    /\ inventory_adjustments = <<>>
    /\ emitted = <<>>
    /\ notifications = <<>>

\* C39: the confirmation of a NEW or PAID order leaves every item without
\* a stock count (unlimited stock) that a line of the order addresses as it
\* was, count and out_of_stock flag, and adds no ledger entry for it,
\* whatever the line's qty; and a confirmation is answered 409 only when
\* some line asks of an item that has a stock count more than that count.
C39_UnlimitedNeverReserved ==
    [][\A id \in DOMAIN orders :
         (/\ payment_webhook(id, "paid", "txn_1")
          /\ orders[id].state \in {S_NEW, S_PAID}) =>
            /\ \A k \in DOMAIN order_items[id] :
                  LET i == order_items[id][k].truck_menu_item_id IN
                  (i \in DOMAIN truck_menu_items /\ truck_menu_items[i].stock_count = Null) =>
                     /\ truck_menu_items'[i].stock_count = Null
                     /\ truck_menu_items'[i].out_of_stock = truck_menu_items[i].out_of_stock
                     /\ AdjustmentsOf(inventory_adjustments', i)
                           = AdjustmentsOf(inventory_adjustments, i)
            /\ response'.status = 409 =>
                  SomeLineFails(order_items[id], truck_menu_items)]_vars

\* C39 witness: an order with a line of MaxQty on the special, whose stock
\* count has been removed, has been confirmed; the special has no count and
\* no payment entry.
C39_Witness ==
    /\ response.op = "payment_webhook"
    /\ response.status = 200
    /\ response.id \in DOMAIN orders
    /\ \E k \in DOMAIN order_items[response.id] :
          /\ order_items[response.id][k].truck_menu_item_id = 2
          /\ order_items[response.id][k].qty = MaxQty
    /\ truck_menu_items[2].stock_count = Null
    /\ EntriesFor(2, "payment_notification") = <<>>

\* C40: the shift of every ledger entry is the shift of the item the
\* entry references, and an inventory request for a shift changes only
\* item rows of that shift, whether the update addresses the item by row
\* id or by catalog id.
C40_InventoryStaysInShift ==
    [][/\ \A k \in DOMAIN inventory_adjustments' :
            LET a == inventory_adjustments'[k] IN
            a.truck_menu_item_id \in DOMAIN truck_menu_items' =>
               a.shift_id = truck_menu_items'[a.truck_menu_item_id].shift_id
       /\ \A shift_id \in ShiftIds, updates \in ScopeUpdates :
            update_inventory(shift_id, updates) =>
               \A i \in DOMAIN truck_menu_items :
                  truck_menu_items'[i] # truck_menu_items[i] =>
                     truck_menu_items[i].shift_id = shift_id]_vars

\* C6: when no request is in flight, every item's stock count is its
\* initial count plus the sum of the ledger deltas the requests committed.
C6_NoLostUpdate ==
    DOMAIN sessions = {} =>
        \A i \in DOMAIN truck_menu_items :
            OrZero(truck_menu_items[i].stock_count) =
              OrZero(InitialItems[i].stock_count)
                + SumDeltas(AdjustmentsOf(inventory_adjustments, i))
\* C20: a payment callback for an existing order whose status is not
\* "paid" is answered 'ignored', and one whose status is "paid" for an
\* order that is neither NEW nor PAID is answered with the order's state;
\* both leave the orders (state and payment_reference included), the
\* items, the inventory ledger and the loyalty ledger as they were.
C20_CallbackNoOp ==
    [][\A orderId \in DOMAIN orders, status \in PaymentStatuses :
          (/\ payment_webhook(orderId, status, "txn_1")
           /\ status \notin {"paid", "PAID"} \/ orders[orderId].state \notin {S_NEW, S_PAID}) =>
             /\ response'.status = 200
             /\ response'.arg = IF status \notin {"paid", "PAID"} THEN "ignored"
                                ELSE orders[orderId].state
             /\ orders' = orders
             /\ truck_menu_items' = truck_menu_items
             /\ inventory_adjustments' = inventory_adjustments
             /\ loyalty_ledger' = loyalty_ledger]_vars

\* C20 witness: an order that earned loyalty points and was then canceled
\* has received another "paid" callback.
C20_Witness ==
    /\ response = Response("payment_webhook", 1, S_CANCELED, 200)
    /\ orders[1].payment_reference = "txn_1"
    /\ orders[1].loyalty_points_awarded > 0
    /\ loyalty_ledger # <<>>

\* ------------------------------------------------- broadcast hub: properties

\* The event names the stream's consumers recognize.
RecognizedEvents ==
    {"new_order", "payment_received", "order_advanced", "order_hold", "order_resume",
     "order_cancel", "bulk_advance", "low_stock", "config_updated", "pause", "resume"}

\* C24: every event a request submits to the hub has a recognized name.
C24_EventNamesRecognized ==
    \A i \in DOMAIN emitted : emitted[i].event \in RecognizedEvents

\* The displays registered for a shift: those that joined it by their
\* websocket's path and have neither left nor been dropped.
Registered(shift_id) ==
    {ws \in Connections : /\ ConnectionShift(ws) = shift_id
                          /\ \E k \in DOMAIN clients : ws \in clients[k]}

Dead(t) == {threads[t].dead[i] : i \in DOMAIN threads[t].dead}

\* C15: an emission for shift S goes to the displays registered for S when
\* it starts; when it has run to its end without a failed send every one of
\* them has been sent the event; and no display is ever sent an event of a
\* shift other than its own.
C15_EmitReachesShiftOnly ==
    [][/\ \A t \in Threads :
            /\ (~threads[t].running /\ threads'[t].running) =>
                   threads'[t].snapshot = Registered(threads'[t].shift_id)
            /\ (threads[t].running /\ ~threads'[t].running /\ threads[t].dead = <<>>) =>
                   \A ws \in threads[t].snapshot :
                      \E k \in DOMAIN received[ws] : received[ws][k] = threads[t].event
       /\ \A ws \in Connections :
            received'[ws] # received[ws] =>
               /\ Len(received'[ws]) = Len(received[ws]) + 1
               /\ received'[ws][Len(received'[ws])].shift_id = ConnectionShift(ws)]_vars

\* C15 witness: both displays of shift 1 have been sent an event while the
\* display registered for shift 2 has been sent none.
C15_Witness ==
    /\ received[1] # <<>> /\ received[2] # <<>> /\ received[3] = <<>>
    /\ 3 \in subscribers(clients, 2)
    /\ \A t \in Threads : ~threads[t].running

\* C16: when an emission in which sends failed returns, it returns to its
\* caller in the ordinary way, the displays whose send failed are no
\* longer registered for the shift, and every other display of the
\* snapshot has been sent the event.
C16_FailedSendDropsOnlyThatDisplay ==
    [][\A t \in Threads :
          (threads[t].running /\ ~threads'[t].running) =>
             /\ threads[t].pc = "emit" => threads'[t].pc = "handler"
             /\ response' = response
             /\ \A ws \in Dead(t) : ws \notin subscribers(clients', threads[t].shift_id)
             /\ \A ws \in threads[t].snapshot \ Dead(t) :
                   /\ \E k \in DOMAIN received[ws] : received[ws][k] = threads[t].event
                   /\ ws \in subscribers(clients, threads[t].shift_id)
                         => ws \in subscribers(clients', threads[t].shift_id)]_vars

\* C16 witness: display 1, whose peer is gone, has been dropped by an
\* emission that reached display 2, and the request has been answered.
C16_Witness ==
    /\ connections[1].link = "broken"
    /\ 1 \notin subscribers(clients, 1)
    /\ connections[2].link = "open" /\ received[2] # <<>>
    /\ 2 \in subscribers(clients, 1)
    /\ \E t \in Threads : threads[t].pc = "responded"

\* C17: a display whose read loop has ended is eventually not registered
\* for its shift.
C17_ClosedDisplayDeregistered ==
    \A ws \in Connections :
        (connections[ws].link = "closed")
            ~> (ws \notin subscribers(clients, ConnectionShift(ws)))

\* C18: a worker thread never has sends of an emission outstanding: it
\* submits its event and produces the response without waiting for the
\* deliveries.
C18_ResponseDoesNotWait ==
    \A t \in Threads : ~(threads[t].pc = "emit" /\ threads[t].todo # <<>>)

\* C19: a display that is in the snapshot of an emission and whose link
\* stays open is eventually sent the event, whatever the other displays
\* of the snapshot do.
C19_HealthyDisplaysServed ==
    \A t \in Threads, ws \in Connections :
        (threads[t].running /\ ws \in threads[t].snapshot /\ connections[ws].link = "open")
            ~> (ws \in threads[t].sent \/ connections[ws].link # "open")
====
